---------------------------- MODULE Spec2Model ----------------------------
(***************************************************************************)
(* Verification model of kobo-notion-sync.                                 *)
(*                                                                         *)
(* Several state machines share this module:                               *)
(*   Spec       the sync orchestrator (SyncManager.sync_full) running      *)
(*              successive sync runs against a device and a remote         *)
(*              database that persists between runs;                       *)
(*   SpecRetry  the retry_with_backoff decorator around one remote call;   *)
(*   SpecCli    two invocations of the `sync` command competing for the    *)
(*              run lock;                                                  *)
(*   SpecFilter the tracked-page filters of the remote lookups applied to  *)
(*              databases that also hold manual pages;                     *)
(*   SpecCache  the highlight cache (CacheManager) over a store that may   *)
(*              be missing, valid, without its table or unreadable;        *)
(*   SpecHash   Highlight.highlight_id computed for pairs of highlights;   *)
(*   SpecExtract the row loops of extract_books and extract_highlights     *)
(*              over query results that hold malformed rows;               *)
(*   SpecBook   Book.progress_code read on books of every progress and     *)
(*              read status;                                               *)
(*   SpecOrder  the highlights of one new book from the Bookmark rows to   *)
(*              the blocks appended to its page;                           *)
(*   SpecClassify the classification of sync_full and its session counters *)
(*              over lists of books that may hold a content id twice.      *)
(* Every action of one machine leaves the variables of the others alone.   *)
(*                                                                         *)
(* The source tree mixes revisions: sync_manager.py calls client methods   *)
(* (delete_all_kobo_books, get_kobo_books_mapping, delete_pages_batch,     *)
(* update_highlight_blocks, the last_read_date argument of the page        *)
(* writes) and assigns session fields (books_skipped, updated_book_names)  *)
(* that the client and session files do not define, and cli/sync.py uses   *)
(* a LockManager that is not in the tree.  These parts are modelled from   *)
(* the specification; everything else follows the source.                  *)
(***************************************************************************)
EXTENDS Integers, Sequences, FiniteSets, TLC

(***************************************************************************)
(* Bounds of the model.                                                    *)
(***************************************************************************)
NumBooks == 2
MaxTs == 3
MaxRuns == 3
MaxFaults == 1
MaxReads == 2
NumProcs == 2
MaxPages == 2
NumHashes == 2
MaxBatch == 2
MaxIdLen == 3
MaxTextLen == 2
MaxRows == 2
MaxHl == 3
MaxList == 2

TimesPerDay == 2

(***************************************************************************)
(* Program constants.                                                      *)
(***************************************************************************)
max_retries == 3
initial_wait == 1
RATE_LIMIT_STATUS == 429
MaxPercent == 100
MaxReadStatus == 2

Books == 1..NumBooks
NoDate == 0

(***************************************************************************)
(* Device fixtures: what the Kobo database holds for each book besides     *)
(* its last-read timestamp.                                                *)
(***************************************************************************)
HighlightCount(b) == (b + 1) % 3
HasIsbn(b) == b % 2 = 1
IsFinished(b) == b % 2 = 1

(* book.date_last_read.date(): a timestamp's calendar date; None is 0. *)
DateOf(ts) == IF ts = 0 THEN NoDate ELSE 1 + (ts - 1) \div TimesPerDay

VARIABLES
    \* ---- device
    devLastRead,        \* content id -> last-read timestamp (0 = never read)
    connected,          \* the device database is reachable
    \* ---- remote database
    pages,              \* sequence of page records, page id = index
    \* ---- one sync_full execution
    pc,                 \* position in sync_full
    run,                \* number of runs started
    full_mode, dry_run, \* arguments of the run
    session,            \* the SyncSession
    books,              \* extracted books, in extraction order
    notion_books_mapping,
    books_to_delete_ids,
    books_to_process,
    idx,                \* loop index of steps 3 and 4
    \* ---- bookkeeping
    ops,                \* calls made in this run, in order
    faults,             \* failures injected so far
    faulty,             \* some operation of this run failed
    reads,              \* reading sessions on the device so far
    hist,               \* summaries of the finished runs
    \* ---- retry decorator
    rKind,              \* the decorated function ("none": no call yet)
    rMax,               \* max_retries of the decorator
    rResponses,         \* answers of the remote API to the attempts so far
    rAttempt,           \* loop variable attempt
    rWait,              \* wait_time
    rSleeps,            \* the sleeps performed, in order
    rResult,            \* "none" while running, then what the wrapper did
    \* ---- sync command
    cliPc,              \* position of each invocation in sync()
    lockHolder,         \* invocation holding the run lock, 0 when free
    exitCode,           \* exit code of each invocation, -1 while running
    cliFull, cliDry,    \* --full and --dry-run of each invocation
    cliIo,              \* what each invocation has read or called so far
    cliAcquired,        \* invocations whose acquire() succeeded
    cliCause,           \* what made each invocation exit ("none" while running)
    \* ---- tracked-page filters
    fDb,                \* page id -> [cid, type] of a database with manual pages
    fTypeCache,         \* _database_has_type_property of the client
    fReturned,          \* pages returned by the lookup or the listing
    fUpdated,           \* pages sync has written to
    \* ---- highlight cache
    cFile,              \* what is at CACHE_DB
    cRows,              \* rows of the highlights table
    cOp,                \* the last CacheManager call ("none": no call yet)
    cOutcome,           \* "ok" or "raised", for that call
    cBefore,            \* the table before it, if atomic_update_highlights
    cBatch,             \* the list passed to it
    cFailAt,            \* where it failed (0: nowhere)
    cBook,              \* the book passed to it, if clear_book_highlights
    cValid,             \* what validate_cache returned, while no call but
                        \* rebuild_cache has followed it
    cSeen,              \* what it returned, if has_highlight
    \* ---- highlight hash
    hlA, hlB,           \* two highlights: [book_id, text, chapter_progress]
    idA, idB,           \* their highlight_id once computed (-1 before)
    \* ---- row extraction
    xBookRows,          \* rows the book query returns, in query order
    xHlRows,            \* rows the highlight query returns, in query order
    xBooks,             \* what the last extract_books did
    xHighlights,        \* what the last extract_highlights did
    \* ---- book status
    bkPercent,          \* Book.percent_read
    bkReadStatus,       \* Book.read_status
    bkCode,             \* progress_code once read ("none" before)
    \* ---- highlight order
    oDates,             \* Bookmark row -> stored DateCreated (0: NULL)
    oHighlights,        \* the list extract_highlights returned
    oBlocks,            \* the children appended to the book's page
    oPc,                \* "rows", "extracted" or "written"
    \* ---- classification
    kBooks,             \* the list extract_books returned
    kMapping,           \* the mapping get_kobo_books_mapping returned
    kSession,           \* the session
    kPc                 \* "extracted" or "classified"

syncVars == <<devLastRead, connected, pages, pc, run, full_mode, dry_run,
              session, books, notion_books_mapping, books_to_delete_ids,
              books_to_process, idx, ops, faults, faulty, reads, hist>>
retryVars == <<rKind, rMax, rResponses, rAttempt, rWait, rSleeps, rResult>>
cliVars == <<cliPc, lockHolder, exitCode, cliFull, cliDry, cliIo, cliAcquired,
             cliCause>>
filterVars == <<fDb, fTypeCache, fReturned, fUpdated>>
cacheVars == <<cFile, cRows, cOp, cOutcome, cBefore, cBatch, cFailAt, cBook,
               cValid, cSeen>>
hashVars == <<hlA, hlB, idA, idB>>
extractVars == <<xBookRows, xHlRows, xBooks, xHighlights>>
bookVars == <<bkPercent, bkReadStatus, bkCode>>
orderVars == <<oDates, oHighlights, oBlocks, oPc>>
classifyVars == <<kBooks, kMapping, kSession, kPc>>
extVars == <<filterVars, cacheVars, hashVars, extractVars, bookVars,
             orderVars, classifyVars>>
vars == <<syncVars, retryVars, cliVars, extVars>>

(***************************************************************************)
(* SyncSession (models/sync_session.py).                                   *)
(***************************************************************************)
NewSession ==
    [errors |-> <<>>, completes |-> 0, books_processed |-> 0,
     books_created |-> 0, books_updated |-> 0, books_skipped |-> 0,
     highlights_synced |-> 0]

add_error(s, e) == [s EXCEPT !.errors = Append(@, e)]

(* complete() stores a fresh end timestamp; completes counts its executions. *)
complete(s) == [s EXCEPT !.completes = @ + 1]

EndTimeSet(s) == s.completes > 0

(* status, with every session that has errors reported as failed. *)
StatusIgnoringHighlights(s) ==
    IF s.errors = <<>> THEN "success" ELSE "failed"

(* SyncSession.status *)
status(s) ==
    IF s.errors = <<>> THEN "success"
    ELSE IF s.highlights_synced > 0 THEN "partial"
    ELSE "failed"


(***************************************************************************)
(* Remote database: tracked book pages.                                    *)
(***************************************************************************)
(* pages maps the id of every page that is not archived to its properties:
   the content id, the last-read date, the number of highlights in the page
   body and the Highlights Count property (-1 when never set). *)
LivePages(ps) == DOMAIN ps

LivePagesOf(ps, c) == {p \in LivePages(ps) : ps[p].cid = c}

(* Archiving removes the pages from every later query. *)
Archive(ps, S) == [p \in DOMAIN ps \ S |-> ps[p]]

(* The id the remote gives a new page: one that no page and no reference
   held by the running sync uses. *)
FreshId(ps, refs) ==
    LET used == DOMAIN ps \cup refs
    IN CHOOSE x \in 1..(Cardinality(used) + 1) :
          /\ x \notin used
          /\ \A y \in 1..(Cardinality(used) + 1) : y \notin used => x <= y

SeqToSet(q) == {q[i] : i \in DOMAIN q}

Min(S) == CHOOSE x \in S : \A y \in S : x <= y

(* get_book_by_kobo_id, changed so that the query never finds a page. *)
GetBookNeverFound(ps, c) == 0

(* get_book_by_kobo_id: results[0] of the content-id query, 0 for None. *)
get_book_by_kobo_id(ps, c) ==
    IF LivePagesOf(ps, c) = {} THEN 0 ELSE Min(LivePagesOf(ps, c))

(* get_kobo_books_mapping: content id -> last-read date and page id of the
   tracked page. *)
get_kobo_books_mapping(ps) ==
    [c \in {ps[p].cid : p \in LivePages(ps)} |->
        [last_read_date |-> ps[Min(LivePagesOf(ps, c))].lastRead,
         page_id |-> Min(LivePagesOf(ps, c))]]

(* The remote date property holds the day as "%Y-%m-%d" text, 0 when empty;
   strptime yields the day, and None for an empty or malformed value. *)
ParseNotionDate(str) == IF str > 0 THEN str ELSE NoDate

(***************************************************************************)
(* Device reader.                                                          *)
(***************************************************************************)
RECURSIVE SortDesc(_, _)
(* ORDER BY DateLastRead DESC NULLS LAST (ties in content-id order). *)
SortDesc(dev, S) ==
    IF S = {} THEN <<>>
    ELSE LET b == CHOOSE x \in S : \A y \in S :
                      \/ dev[x] > dev[y]
                      \/ dev[x] = dev[y] /\ x <= y
         IN <<[cid |-> b, date_last_read |-> dev[b]]>> \o SortDesc(dev, S \ {b})

extract_books(dev) == SortDesc(dev, Books)

(***************************************************************************)
(* Change detection, sync_full step 2.7: one pass over the books.          *)
(***************************************************************************)
NoDecision == [del |-> <<>>, proc |-> {}, created |-> <<>>, updated |-> <<>>]

(* ClassifyBook, changed so that a tracked book whose date differs is written
   over in place: its page is not marked for deletion. *)
ClassifyBookInPlace(acc, book, mapping) ==
    IF book.cid \notin DOMAIN mapping
    THEN [acc EXCEPT !.proc = @ \cup {book.cid},
                     !.created = Append(@, book.cid)]
    ELSE IF DateOf(book.date_last_read) #
                ParseNotionDate(mapping[book.cid].last_read_date)
    THEN [acc EXCEPT !.proc = @ \cup {book.cid},
                     !.updated = Append(@, book.cid)]
    ELSE acc

(* ClassifyBook, changed so that the device timestamp itself, time of day
   included, is compared with the remote date. *)
ClassifyBookByTimestamp(acc, book, mapping) ==
    IF book.cid \notin DOMAIN mapping
    THEN [acc EXCEPT !.proc = @ \cup {book.cid},
                     !.created = Append(@, book.cid)]
    ELSE IF book.date_last_read #
                ParseNotionDate(mapping[book.cid].last_read_date)
    THEN [acc EXCEPT !.del = Append(@, mapping[book.cid].page_id),
                     !.proc = @ \cup {book.cid},
                     !.updated = Append(@, book.cid)]
    ELSE acc

ClassifyBook(acc, book, mapping) ==
    IF book.cid \notin DOMAIN mapping
    THEN [acc EXCEPT !.proc = @ \cup {book.cid},
                     !.created = Append(@, book.cid)]
    ELSE IF DateOf(book.date_last_read) #
                ParseNotionDate(mapping[book.cid].last_read_date)
    THEN [acc EXCEPT !.del = Append(@, mapping[book.cid].page_id),
                     !.proc = @ \cup {book.cid},
                     !.updated = Append(@, book.cid)]
    ELSE acc

RECURSIVE Classify(_, _, _)
Classify(bs, mapping, n) ==
    IF n = 0 THEN NoDecision
    ELSE ClassifyBook(Classify(bs, mapping, n - 1), bs[n], mapping)

(***************************************************************************)
(* Bookkeeping of a run.                                                   *)
(***************************************************************************)
Op(name, c, ok) == [op |-> name, cid |-> c, ok |-> ok]

PageWrites == {"delete_all_kobo_books", "delete_pages_batch", "archive_page",
               "create_book_page", "update_book_page",
               "update_book_status_to_completed", "create_highlight_blocks",
               "update_highlight_blocks", "update_sync_metadata"}

IsPageWrite(o) == o.op \in PageWrites

RECURSIVE Ascending(_)
Ascending(S) ==
    IF S = {} THEN <<>> ELSE <<Min(S)>> \o Ascending(S \ {Min(S)})

(* One archive_page entry for each page of ids that a delete call archived
   (the pages of S), in the order of ids. *)
ArchivedOps(ps, ids, S) ==
    LET gone == SelectSeq(ids, LAMBDA x : x \in S /\ x \in DOMAIN ps)
    IN [i \in 1..Len(gone) |-> Op("archive_page", ps[gone[i]].cid, TRUE)]

(* What is remembered of a finished run: its flags, whether an operation
   failed, the device state it saw, the page writes it issued, whether it
   reached the normal end and the errors of its session. *)
RunSummary(o, f, s, normal) ==
    [full |-> full_mode, dry |-> dry_run, faulty |-> f, dev |-> devLastRead,
     ops |-> SelectSeq(o, IsPageWrite), normal |-> normal,
     errors |-> s.errors]

(* Failures are injected up to MaxFaults times and not in the last run of
   the horizon, which is explored for failure-free histories only. *)
CanFail == faults < MaxFaults /\ run < MaxRuns

(* NextToProcess, changed so that no book is passed over. *)
NextToProcessAny(bs, proc, i) == i

(* First index at or after i of a book that needs processing. *)
RECURSIVE NextToProcess(_, _, _)
NextToProcess(bs, proc, i) ==
    IF i > Len(bs) THEN i
    ELSE IF bs[i].cid \in proc THEN i
    ELSE NextToProcess(bs, proc, i + 1)

Step4Next(bs, proc, i) ==
    LET j == NextToProcess(bs, proc, i)
    IN IF j <= Len(bs) THEN [pc |-> "step4", idx |-> j]
       ELSE [pc |-> "complete", idx |-> 0]

Step3Next(bs, proc, i, dry) ==
    LET j == NextToProcess(bs, proc, i)
    IN IF j <= Len(bs) THEN [pc |-> "step3", idx |-> j]
       ELSE IF dry THEN [pc |-> "complete", idx |-> 0]
       ELSE Step4Next(bs, proc, 1)

(***************************************************************************)
(* SyncManager.sync_full, one action per step.                             *)
(***************************************************************************)
otherVarsOfSync == <<retryVars, cliVars, extVars>>
envCounters == <<reads>>

(* A sync run is started with its two flags. *)
StartRun(f, d) ==
    /\ pc \in {"idle", "done"}
    /\ run < MaxRuns
    /\ run + 1 < MaxRuns \/ faults = 0
    /\ pc' = "device"
    /\ run' = run + 1
    /\ full_mode' = f
    /\ dry_run' = d
    /\ session' = NewSession
    /\ books' = <<>>
    /\ notion_books_mapping' = <<>>
    /\ books_to_delete_ids' = <<>>
    /\ books_to_process' = {}
    /\ idx' = 0
    /\ ops' = <<>>
    /\ faulty' = FALSE
    /\ UNCHANGED <<devLastRead, connected, pages, faults, hist, otherVarsOfSync, envCounters>>

(* An early return: the error is recorded, the session finalized. *)
Abort(err, o) ==
    /\ session' = complete(add_error(session, err))
    /\ pc' = "done"
    /\ ops' = o
    /\ faulty' = TRUE
    /\ hist' = Append(hist, RunSummary(o, TRUE, session', FALSE))

(* VerifyDevice, changed so that a failed verification is recorded and the
   run goes on. *)
VerifyDeviceContinuing ==
    /\ pc = "device"
    /\ pc' = IF full_mode THEN "fulldel" ELSE "extract"
    /\ ops' = Append(ops, Op("detect_device", 0, connected))
    /\ session' = IF connected THEN session
                  ELSE add_error(session, "Kobo device not found")
    /\ UNCHANGED <<faulty, hist>>
    /\ UNCHANGED <<devLastRead, connected, pages, run, full_mode, dry_run,
                   books, notion_books_mapping, books_to_delete_ids,
                   books_to_process, idx, faults, otherVarsOfSync, envCounters>>

(* VerifyDevice, changed so that full mode goes straight to the extraction. *)
VerifyDeviceSkippingFullDelete ==
    /\ pc = "device"
    /\ IF connected
       THEN /\ pc' = "extract"
            /\ ops' = Append(ops, Op("detect_device", 0, TRUE))
            /\ UNCHANGED <<session, faulty, hist>>
       ELSE Abort("Kobo device not found",
                  Append(ops, Op("detect_device", 0, FALSE)))
    /\ UNCHANGED <<devLastRead, connected, pages, run, full_mode, dry_run,
                   books, notion_books_mapping, books_to_delete_ids,
                   books_to_process, idx, faults, otherVarsOfSync, envCounters>>

(* Step 1: detect_device and get_device_info. *)
VerifyDevice ==
    /\ pc = "device"
    /\ IF connected
       THEN /\ pc' = IF full_mode THEN "fulldel" ELSE "extract"
            /\ ops' = Append(ops, Op("detect_device", 0, TRUE))
            /\ UNCHANGED <<session, faulty, hist>>
       ELSE Abort("Kobo device not found",
                  Append(ops, Op("detect_device", 0, FALSE)))
    /\ UNCHANGED <<devLastRead, connected, pages, run, full_mode, dry_run,
                   books, notion_books_mapping, books_to_delete_ids,
                   books_to_process, idx, faults, otherVarsOfSync, envCounters>>

(* FullModeDelete, changed so that a failed deletion is recorded and the run
   goes on to the extraction. *)
FullModeDeleteContinuing ==
    /\ pc = "fulldel"
    /\ \/ /\ pages' = Archive(pages, LivePages(pages))
          /\ session' = add_error(session, "[Full sync] Deleted existing Kobo books")
          /\ ops' = Append(ops, Op("delete_all_kobo_books", 0, TRUE)) \o
                    ArchivedOps(pages, Ascending(LivePages(pages)), LivePages(pages))
          /\ UNCHANGED <<faults, faulty>>
       \/ /\ CanFail
          /\ \E S \in SUBSET LivePages(pages) :
                /\ pages' = Archive(pages, S)
                /\ ops' = Append(ops, Op("delete_all_kobo_books", 0, FALSE)) \o
                          ArchivedOps(pages, Ascending(LivePages(pages)), S)
          /\ session' = add_error(session, "Failed to delete existing Kobo books")
          /\ faults' = faults + 1
          /\ faulty' = TRUE
    /\ pc' = "extract"
    /\ UNCHANGED <<devLastRead, connected, run, full_mode, dry_run, books,
                   notion_books_mapping, books_to_delete_ids,
                   books_to_process, idx, hist, otherVarsOfSync, envCounters>>

(* Step 1.5: delete_all_kobo_books when full_mode is set. *)
FullModeDelete ==
    /\ pc = "fulldel"
    /\ \/ /\ pages' = Archive(pages, LivePages(pages))
          /\ session' = add_error(session, "[Full sync] Deleted existing Kobo books")
          /\ ops' = Append(ops, Op("delete_all_kobo_books", 0, TRUE)) \o
                    ArchivedOps(pages, Ascending(LivePages(pages)), LivePages(pages))
          /\ pc' = "extract"
          /\ UNCHANGED <<faults, faulty, hist>>
       \/ /\ CanFail
          /\ \E S \in SUBSET LivePages(pages) :
                /\ pages' = Archive(pages, S)
                /\ Abort("Failed to delete existing Kobo books",
                         Append(ops, Op("delete_all_kobo_books", 0, FALSE)) \o
                         ArchivedOps(pages, Ascending(LivePages(pages)), S))
          /\ faults' = faults + 1
    /\ UNCHANGED <<devLastRead, connected, run, full_mode, dry_run, books,
                   notion_books_mapping, books_to_delete_ids,
                   books_to_process, idx, otherVarsOfSync, envCounters>>

(* Step 2: extract_books. *)
ExtractBooks ==
    /\ pc = "extract"
    /\ IF connected
       THEN /\ books' = extract_books(devLastRead)
            /\ session' = [session EXCEPT !.books_processed = Len(books')]
            /\ ops' = Append(ops, Op("extract_books", 0, TRUE))
            /\ pc' = "mapping"
            /\ UNCHANGED <<faulty, hist>>
       ELSE /\ Abort("Failed to extract books",
                     Append(ops, Op("extract_books", 0, FALSE)))
            /\ UNCHANGED books
    /\ UNCHANGED <<devLastRead, connected, pages, run, full_mode, dry_run,
                   notion_books_mapping, books_to_delete_ids,
                   books_to_process, idx, faults, otherVarsOfSync, envCounters>>

(* FetchAndClassify, changed so that a failed mapping fetch ends the run. *)
FetchAndClassifyAbortingOnFailure ==
    /\ pc = "mapping"
    /\ \/ /\ notion_books_mapping' = get_kobo_books_mapping(pages)
          /\ ops' = Append(ops, Op("get_kobo_books_mapping", 0, TRUE))
          /\ LET d == Classify(books, notion_books_mapping', Len(books))
             IN /\ books_to_delete_ids' = d.del
                /\ books_to_process' = d.proc
          /\ pc' = "batchdel"
          /\ UNCHANGED <<session, faults, faulty, hist>>
       \/ /\ CanFail
          /\ faults' = faults + 1
          /\ Abort("Failed to fetch the books mapping",
                   Append(ops, Op("get_kobo_books_mapping", 0, FALSE)))
          /\ UNCHANGED <<notion_books_mapping, books_to_delete_ids,
                         books_to_process>>
    /\ UNCHANGED <<devLastRead, connected, pages, run, full_mode, dry_run,
                   books, idx, otherVarsOfSync, envCounters>>

(* Steps 2.5 and 2.7: batch fetch of the mapping (a failure leaves it empty)
   and classification of every book. *)
FetchAndClassify ==
    /\ pc = "mapping"
    /\ \E ok \in BOOLEAN :
          /\ ok \/ CanFail
          /\ notion_books_mapping' =
                IF ok THEN get_kobo_books_mapping(pages) ELSE <<>>
          /\ faults' = IF ok THEN faults ELSE faults + 1
          /\ faulty' = (faulty \/ ~ok)
          /\ ops' = Append(ops, Op("get_kobo_books_mapping", 0, ok))
    /\ LET d == Classify(books, notion_books_mapping', Len(books))
       IN /\ books_to_delete_ids' = d.del
          /\ books_to_process' = d.proc
    /\ pc' = "batchdel"
    /\ UNCHANGED <<devLastRead, connected, pages, run, full_mode, dry_run,
                   session, books, idx, hist, otherVarsOfSync, envCounters>>

(* BatchDelete, changed so that the marked pages are not deleted. *)
BatchDeleteSkipped ==
    /\ pc = "batchdel"
    /\ LET d == Classify(books, notion_books_mapping, Len(books))
           nxt == Step3Next(books, books_to_process, 1, dry_run)
       IN /\ session' = [session EXCEPT
                            !.books_created = Len(d.created),
                            !.books_updated = Len(d.updated),
                            !.books_processed = Cardinality(books_to_process),
                            !.books_skipped = Len(books) - Cardinality(books_to_process)]
          /\ pc' = nxt.pc
          /\ idx' = nxt.idx
    /\ UNCHANGED <<devLastRead, connected, pages, ops, faults, faulty, run,
                   full_mode, dry_run, books, notion_books_mapping,
                   books_to_delete_ids, books_to_process, hist,
                   otherVarsOfSync, envCounters>>

(* Step 2.9 and the session counters: delete_pages_batch on the marked
   pages (a failure is logged and ignored), then the counters. *)
BatchDelete ==
    /\ pc = "batchdel"
    /\ IF books_to_delete_ids # <<>>
       THEN \/ /\ pages' = Archive(pages, SeqToSet(books_to_delete_ids))
               /\ ops' = Append(ops, Op("delete_pages_batch", 0, TRUE)) \o
                         ArchivedOps(pages, books_to_delete_ids,
                                     SeqToSet(books_to_delete_ids))
               /\ UNCHANGED <<faults, faulty>>
            \/ /\ CanFail
               /\ \E S \in SUBSET SeqToSet(books_to_delete_ids) :
                     /\ pages' = Archive(pages, S)
                     /\ ops' = Append(ops, Op("delete_pages_batch", 0, FALSE)) \o
                               ArchivedOps(pages, books_to_delete_ids, S)
               /\ faults' = faults + 1
               /\ faulty' = TRUE
       ELSE UNCHANGED <<pages, ops, faults, faulty>>
    /\ LET d == Classify(books, notion_books_mapping, Len(books))
           nxt == Step3Next(books, books_to_process, 1, dry_run)
       IN /\ session' = [session EXCEPT
                            !.books_created = Len(d.created),
                            !.books_updated = Len(d.updated),
                            !.books_processed = Cardinality(books_to_process),
                            !.books_skipped = Len(books) - Cardinality(books_to_process)]
          /\ pc' = nxt.pc
          /\ idx' = nxt.idx
    /\ UNCHANGED <<devLastRead, connected, run, full_mode, dry_run, books,
                   notion_books_mapping, books_to_delete_ids,
                   books_to_process, hist, otherVarsOfSync, envCounters>>

(* ProcessBook, changed so that a failed connection check records its error
   and goes on to the next book instead of returning. *)
ProcessBookNoHalt ==
    /\ pc = "step3"
    /\ LET c == books[idx].cid
           o == Append(ops, Op("check_device", c, connected))
           nxt == Step3Next(books, books_to_process, idx + 1, dry_run)
       IN /\ pc' = nxt.pc
          /\ idx' = nxt.idx
          /\ IF ~connected
             THEN /\ session' = add_error(session,
                         "Kobo device disconnected during sync - halting")
                  /\ ops' = o
                  /\ faulty' = TRUE
                  /\ UNCHANGED faults
             ELSE \E ok \in BOOLEAN :
                     /\ ok \/ CanFail
                     /\ session' = [session EXCEPT !.highlights_synced =
                                       @ + (IF ok THEN HighlightCount(c) ELSE 0)]
                     /\ ops' = Append(o, Op("extract_highlights", c, ok))
                     /\ faults' = IF ok THEN faults ELSE faults + 1
                     /\ faulty' = (faulty \/ ~ok)
    /\ UNCHANGED <<devLastRead, connected, pages, run, full_mode, dry_run,
                   books, notion_books_mapping, books_to_delete_ids,
                   books_to_process, hist, otherVarsOfSync, envCounters>>

(* Step 3, one iteration for a book that needs processing: the connection
   check, then extract_highlights (a device error yields no highlights). *)
ProcessBook ==
    /\ pc = "step3"
    /\ LET c == books[idx].cid
           o == Append(ops, Op("check_device", c, connected))
       IN IF ~connected
          THEN /\ Abort("Kobo device disconnected during sync - halting", o)
               /\ UNCHANGED <<idx, faults>>
          ELSE \E ok \in BOOLEAN :
                  /\ ok \/ CanFail
                  /\ session' = [session EXCEPT !.highlights_synced =
                                    @ + (IF ok THEN HighlightCount(c) ELSE 0)]
                  /\ ops' = Append(o, Op("extract_highlights", c, ok))
                  /\ faults' = IF ok THEN faults ELSE faults + 1
                  /\ faulty' = (faulty \/ ~ok)
                  /\ LET nxt == Step3Next(books, books_to_process, idx + 1, dry_run)
                     IN pc' = nxt.pc /\ idx' = nxt.idx
                  /\ UNCHANGED hist
    /\ UNCHANGED <<devLastRead, connected, pages, run, full_mode, dry_run,
                   books, notion_books_mapping, books_to_delete_ids,
                   books_to_process, otherVarsOfSync, envCounters>>

(***************************************************************************)
(* SyncManager._sync_book_to_notion.  The remote calls of one book, in     *)
(* order: 1 lookup, 2 page create/update, 3 status, 4 cover, 5 highlight   *)
(* blocks, 6 sync metadata.  f names the call that raises ("none": no      *)
(* call raises); every exception is caught inside, None is returned.  cv   *)
(* is the outcome of the cover step, whose exceptions are ignored.         *)
(***************************************************************************)
StageNo(f) ==
    CASE f = "extract" -> 0
      [] f = "lookup" -> 1
      [] f = "page" -> 2
      [] f = "status" -> 3
      [] f = "hl" -> 5
      [] f = "meta" -> 6
      [] OTHER -> 9

(* _sync_book_to_notion, changed so that a failed set_cover_image ends the
   work on the book. *)
SyncBookCoverFatal(ps, book, f, cv, refs) ==
    LET c == book.cid
        n == HighlightCount(c)
        fs == IF cv = "fail" THEN 4 ELSE StageNo(f)
        existing_page == get_book_by_kobo_id(ps, c)
        is_book_update == existing_page # 0
        page_id == IF is_book_update THEN existing_page ELSE FreshId(ps, refs)
        newPage == [cid |-> c, lastRead |-> DateOf(book.date_last_read),
                    hl |-> 0, meta |-> -1]
        ps2 == IF fs <= 2 THEN ps
               ELSE IF is_book_update
               THEN [ps EXCEPT ![page_id].lastRead = DateOf(book.date_last_read)]
               ELSE ps @@ (page_id :> newPage)
        ps5 == IF fs > 5 /\ n > 0
               THEN [ps2 EXCEPT ![page_id].hl = IF is_book_update THEN n ELSE @ + n]
               ELSE ps2
        ps6 == IF fs > 6 THEN [ps5 EXCEPT ![page_id].meta = n] ELSE ps5
        o1 == <<Op("get_book_by_kobo_id", c, fs > 1)>>
        o2 == IF fs >= 2
              THEN <<Op(IF is_book_update THEN "update_book_page"
                        ELSE "create_book_page", c, fs > 2)>>
              ELSE <<>>
        o3 == IF fs >= 3 /\ is_book_update /\ IsFinished(c)
              THEN <<Op("update_book_status_to_completed", c, fs > 3)>>
              ELSE <<>>
        o4 == IF fs >= 4 /\ HasIsbn(c)
              THEN <<Op("get_cover_url", c, cv # "none")>> \o
                   (IF cv \in {"set", "fail"}
                    THEN <<Op("set_cover_image", c, cv = "set")>> ELSE <<>>)
              ELSE <<>>
        o5 == IF fs >= 5 /\ n > 0
              THEN <<Op(IF is_book_update THEN "update_highlight_blocks"
                        ELSE "create_highlight_blocks", c, fs > 5)>>
              ELSE <<>>
        o6 == IF fs >= 6 THEN <<Op("update_sync_metadata", c, fs > 6)>> ELSE <<>>
    IN [pages |-> ps6, ops |-> o1 \o o2 \o o3 \o o4 \o o5 \o o6,
        page_id |-> IF fs > 6 THEN page_id ELSE 0]

(* _sync_book_to_notion, changed so that a failed highlight write is logged
   and the sync metadata is written all the same. *)
SyncBookMetaAfterFailedHighlights(ps, book, f, cv, refs) ==
    LET c == book.cid
        n == HighlightCount(c)
        fs == StageNo(f)
        existing_page == get_book_by_kobo_id(ps, c)
        is_book_update == existing_page # 0
        page_id == IF is_book_update THEN existing_page ELSE FreshId(ps, refs)
        newPage == [cid |-> c, lastRead |-> DateOf(book.date_last_read),
                    hl |-> 0, meta |-> -1]
        ps2 == IF fs <= 2 THEN ps
               ELSE IF is_book_update
               THEN [ps EXCEPT ![page_id].lastRead = DateOf(book.date_last_read)]
               ELSE ps @@ (page_id :> newPage)
        ps5 == IF fs > 5 /\ n > 0
               THEN [ps2 EXCEPT ![page_id].hl = IF is_book_update THEN n ELSE @ + n]
               ELSE ps2
        ps6 == IF fs >= 5 /\ fs # 6 THEN [ps5 EXCEPT ![page_id].meta = n] ELSE ps5
        o1 == <<Op("get_book_by_kobo_id", c, fs > 1)>>
        o2 == IF fs >= 2
              THEN <<Op(IF is_book_update THEN "update_book_page"
                        ELSE "create_book_page", c, fs > 2)>>
              ELSE <<>>
        o3 == IF fs >= 3 /\ is_book_update /\ IsFinished(c)
              THEN <<Op("update_book_status_to_completed", c, fs > 3)>>
              ELSE <<>>
        o4 == IF fs >= 4 /\ HasIsbn(c)
              THEN <<Op("get_cover_url", c, cv # "none")>> \o
                   (IF cv \in {"set", "fail"}
                    THEN <<Op("set_cover_image", c, cv = "set")>> ELSE <<>>)
              ELSE <<>>
        o5 == IF fs >= 5 /\ n > 0
              THEN <<Op(IF is_book_update THEN "update_highlight_blocks"
                        ELSE "create_highlight_blocks", c, fs > 5)>>
              ELSE <<>>
        o6 == IF fs >= 5 THEN <<Op("update_sync_metadata", c, fs # 6)>> ELSE <<>>
    IN [pages |-> ps6, ops |-> o1 \o o2 \o o3 \o o4 \o o5 \o o6,
        page_id |-> IF fs >= 5 /\ fs # 6 THEN page_id ELSE 0]

(* _sync_book_to_notion(book, highlights), failing at stage f ("none":
   nowhere) with cover outcome cv. *)
sync_book_to_notion(ps, book, f, cv, refs) ==
    LET c == book.cid
        n == HighlightCount(c)
        fs == StageNo(f)
        existing_page == get_book_by_kobo_id(ps, c)
        is_book_update == existing_page # 0
        page_id == IF is_book_update THEN existing_page ELSE FreshId(ps, refs)
        newPage == [cid |-> c, lastRead |-> DateOf(book.date_last_read),
                    hl |-> 0, meta |-> -1]
        ps2 == IF fs <= 2 THEN ps
               ELSE IF is_book_update
               THEN [ps EXCEPT ![page_id].lastRead = DateOf(book.date_last_read)]
               ELSE ps @@ (page_id :> newPage)
        ps5 == IF fs > 5 /\ n > 0
               THEN [ps2 EXCEPT ![page_id].hl = IF is_book_update THEN n ELSE @ + n]
               ELSE ps2
        ps6 == IF fs > 6 THEN [ps5 EXCEPT ![page_id].meta = n] ELSE ps5
        o1 == <<Op("get_book_by_kobo_id", c, fs > 1)>>
        o2 == IF fs >= 2
              THEN <<Op(IF is_book_update THEN "update_book_page"
                        ELSE "create_book_page", c, fs > 2)>>
              ELSE <<>>
        o3 == IF fs >= 3 /\ is_book_update /\ IsFinished(c)
              THEN <<Op("update_book_status_to_completed", c, fs > 3)>>
              ELSE <<>>
        o4 == IF fs >= 4 /\ HasIsbn(c)
              THEN <<Op("get_cover_url", c, cv # "none")>> \o
                   (IF cv \in {"set", "fail"}
                    THEN <<Op("set_cover_image", c, cv = "set")>> ELSE <<>>)
              ELSE <<>>
        o5 == IF fs >= 5 /\ n > 0
              THEN <<Op(IF is_book_update THEN "update_highlight_blocks"
                        ELSE "create_highlight_blocks", c, fs > 5)>>
              ELSE <<>>
        o6 == IF fs >= 6 THEN <<Op("update_sync_metadata", c, fs > 6)>> ELSE <<>>
    IN [pages |-> ps6, ops |-> o1 \o o2 \o o3 \o o4 \o o5 \o o6,
        page_id |-> IF fs > 6 THEN page_id ELSE 0]

FailPoints == {"none", "extract", "lookup", "page", "status", "hl", "meta"}
CoverOutcomes == {"skip", "none", "set", "fail"}

(* Step 4, one iteration for a book that needs processing: extract_highlights
   again, then _sync_book_to_notion; only an exception of the extraction
   reaches the handler that records a session error. *)
SyncBook ==
    /\ pc = "step4"
    /\ LET book == books[idx]
           c == book.cid
       IN \E f \in FailPoints, cv \in CoverOutcomes :
            LET cost == (IF f # "none" /\ connected THEN 1 ELSE 0)
                        + (IF cv = "fail" THEN 1 ELSE 0)
                r == sync_book_to_notion(pages, book, f, cv,
                         SeqToSet(books_to_delete_ids) \cup
                         {notion_books_mapping[x].page_id :
                             x \in DOMAIN notion_books_mapping})
                nxt == Step4Next(books, books_to_process, idx + 1)
            IN /\ ~connected => f = "extract"
               /\ f = "status" => get_book_by_kobo_id(pages, c) # 0 /\ IsFinished(c)
               /\ f = "hl" => HighlightCount(c) > 0
               /\ cv = "skip" <=> ~(StageNo(f) >= 4 /\ HasIsbn(c))
               /\ cost > 0 => CanFail /\ faults + cost <= MaxFaults
               /\ faults' = faults + cost
               /\ faulty' = (faulty \/ f # "none" \/ cv = "fail")
               /\ IF f = "extract"
                  THEN /\ ops' = Append(ops, Op("extract_highlights", c, FALSE))
                       /\ session' = add_error(session, "Failed to sync book")
                       /\ UNCHANGED pages
                  ELSE /\ ops' = Append(ops, Op("extract_highlights", c, TRUE)) \o r.ops
                       /\ pages' = r.pages
                       /\ UNCHANGED session
               /\ pc' = nxt.pc
               /\ idx' = nxt.idx
    /\ UNCHANGED <<devLastRead, connected, run, full_mode, dry_run, books,
                   notion_books_mapping, books_to_delete_ids,
                   books_to_process, hist, otherVarsOfSync, envCounters>>

(* Normal end, line 356: session.complete(). *)
Complete ==
    /\ pc = "complete"
    /\ session' = complete(session)
    /\ pc' = "log"
    /\ UNCHANGED <<devLastRead, connected, pages, run, full_mode, dry_run,
                   books, notion_books_mapping, books_to_delete_ids,
                   books_to_process, idx, ops, faults, faulty, hist,
                   otherVarsOfSync, envCounters>>

(* Lines 357-364 and 381-385.  The summary log evaluates
   session.duration_seconds = end_time - start_time.  start_time is
   timezone-aware (datetime.now(timezone.utc).astimezone()) and complete()
   stores the naive datetime.now(), so the subtraction raises TypeError; the
   outer handler records it, calls complete() again and returns.  The
   database title update below the log is never reached. *)
LogComplete ==
    /\ pc = "log"
    /\ session' = complete(add_error(session, "Unexpected sync error"))
    /\ pc' = "done"
    /\ hist' = Append(hist, RunSummary(ops, faulty, session', TRUE))
    /\ UNCHANGED <<devLastRead, connected, pages, run, full_mode, dry_run,
                   books, notion_books_mapping, books_to_delete_ids,
                   books_to_process, idx, ops, faults, faulty,
                   otherVarsOfSync, envCounters>>

(***************************************************************************)
(* Environment of the sync runs.                                           *)
(***************************************************************************)
(* The device is unplugged, at any moment. *)
Unplug ==
    /\ connected
    /\ CanFail
    /\ connected' = FALSE
    /\ faults' = faults + 1
    /\ UNCHANGED <<devLastRead, pages, pc, run, full_mode, dry_run, session,
                   books, notion_books_mapping, books_to_delete_ids,
                   books_to_process, idx, ops, faulty, hist, otherVarsOfSync, envCounters>>

(* The device is plugged in again between two runs. *)
Replug ==
    /\ ~connected
    /\ pc \in {"idle", "done"}
    /\ connected' = TRUE
    /\ UNCHANGED <<devLastRead, pages, pc, run, full_mode, dry_run, session,
                   books, notion_books_mapping, books_to_delete_ids,
                   books_to_process, idx, ops, faults, faulty, hist,
                   otherVarsOfSync, envCounters>>

(* The user reads book b between two runs: its last-read timestamp grows. *)
ReadBook(b, t) ==
    /\ pc \in {"idle", "done"}
    /\ run < MaxRuns
    /\ reads < MaxReads
    /\ t > devLastRead[b]
    /\ devLastRead' = [devLastRead EXCEPT ![b] = t]
    /\ reads' = reads + 1
    /\ UNCHANGED <<connected, pages, pc, run, full_mode, dry_run, session,
                   books, notion_books_mapping, books_to_delete_ids,
                   books_to_process, idx, ops, faults, faulty, hist,
                   otherVarsOfSync>>

InitSync ==
    /\ devLastRead = [b \in Books |-> IF b = 1 THEN 1 ELSE 0]
    /\ connected = TRUE
    /\ pages = <<>>
    /\ pc = "idle"
    /\ run = 0
    /\ full_mode = FALSE
    /\ dry_run = FALSE
    /\ session = NewSession
    /\ books = <<>>
    /\ notion_books_mapping = <<>>
    /\ books_to_delete_ids = <<>>
    /\ books_to_process = {}
    /\ idx = 0
    /\ ops = <<>>
    /\ faults = 0
    /\ faulty = FALSE
    /\ reads = 0
    /\ hist = <<>>

InitRetryIdle ==
    /\ rKind = "none"
    /\ rMax = 0
    /\ rResponses = <<>>
    /\ rAttempt = 0
    /\ rWait = 0
    /\ rSleeps = <<>>
    /\ rResult = "none"

Procs == 1..NumProcs

InitCliIdle ==
    /\ cliPc = [p \in Procs |-> "idle"]
    /\ lockHolder = 0
    /\ exitCode = [p \in Procs |-> -1]
    /\ cliFull = [p \in Procs |-> FALSE]
    /\ cliDry = [p \in Procs |-> FALSE]
    /\ cliIo = [p \in Procs |-> {}]
    /\ cliAcquired = {}
    /\ cliCause = [p \in Procs |-> "none"]

InitFilterIdle ==
    /\ fDb = <<>>
    /\ fTypeCache = "unset"
    /\ fReturned = {}
    /\ fUpdated = {}

Hashes == 1..NumHashes
NoRows == {}
NoValidation == [valid |-> TRUE, entry_count |-> -1]

InitCacheIdle ==
    /\ cFile = "missing"
    /\ cRows = NoRows
    /\ cOp = "none"
    /\ cOutcome = "ok"
    /\ cBefore = NoRows
    /\ cBatch = <<>>
    /\ cFailAt = 0
    /\ cBook = 0
    /\ cValid = NoValidation
    /\ cSeen = "none"

NoHighlight == [book_id |-> <<>>, text |-> <<>>, chapter_progress |-> "None"]

InitHashIdle ==
    /\ hlA = NoHighlight
    /\ hlB = NoHighlight
    /\ idA = -1
    /\ idB = -1

NotCalled == [outcome |-> "none", items |-> <<>>]

InitExtractIdle ==
    /\ xBookRows = <<>>
    /\ xHlRows = <<>>
    /\ xBooks = NotCalled
    /\ xHighlights = NotCalled

InitBookIdle ==
    /\ bkPercent = 0
    /\ bkReadStatus = 0
    /\ bkCode = "none"

InitOrderIdle ==
    /\ oDates = <<>>
    /\ oHighlights = <<>>
    /\ oBlocks = <<>>
    /\ oPc = "rows"

InitClassifyIdle ==
    /\ kBooks = <<>>
    /\ kMapping = <<>>
    /\ kSession = NewSession
    /\ kPc = "extracted"

InitExtIdle ==
    /\ InitFilterIdle /\ InitCacheIdle /\ InitHashIdle /\ InitExtractIdle
    /\ InitBookIdle /\ InitOrderIdle /\ InitClassifyIdle

Init == InitSync /\ InitRetryIdle /\ InitCliIdle /\ InitExtIdle

Next ==
    \/ \E f \in BOOLEAN, d \in BOOLEAN : StartRun(f, d)
    \/ VerifyDevice
    \/ FullModeDelete
    \/ ExtractBooks
    \/ FetchAndClassify
    \/ BatchDelete
    \/ ProcessBook
    \/ SyncBook
    \/ Complete
    \/ LogComplete
    \/ Unplug
    \/ Replug
    \/ \E b \in Books, t \in 1..MaxTs : ReadBook(b, t)

Spec == Init /\ [][Next]_vars

(***************************************************************************)
(* retry_with_backoff (services/notion_client.py).                         *)
(***************************************************************************)
WrappedMethods ==
    {"validate_database_schema", "create_book_page", "set_cover_image",
     "create_highlight_blocks", "update_book_status_to_completed",
     "list_kobo_books", "get_book_by_kobo_id", "update_book_page",
     "update_sync_metadata", "count_non_kobo_books"}

(* The client methods that call the SDK without the decorator. *)
UndecoratedMethods ==
    {"_check_type_property_exists", "validate_token", "list_databases",
     "get_database_page_count", "create_database", "add_optional_properties",
     "initialize_empty_database", "add_tracking_properties"}

(* Answers of the remote API to one call of the SDK. *)
Responses == {"ok", "rate_limit", "api_error", "other_error"}

(* e.status of the APIResponseError the SDK raises for an answer. *)
StatusOf(resp) ==
    IF resp = "rate_limit" THEN RATE_LIMIT_STATUS
    ELSE IF resp = "api_error" THEN 400
    ELSE 0

(* What the decorated function does with the answer.  "api_call" is a
   function that lets the SDK's exception through.  Every decorated client
   method has the handlers
       except APIResponseError as e: raise NotionValidationError(...)
       except Exception as e:        raise NotionValidationError(...)
   around its SDK call, so whatever the SDK raises leaves the method as a
   NotionValidationError. *)
FuncOutcome(kind, resp) ==
    IF resp = "ok" THEN "returned"
    ELSE IF kind \in WrappedMethods THEN "NotionValidationError"
    ELSE IF resp \in {"rate_limit", "api_error"} THEN "APIResponseError"
    ELSE "Exception"

(* A decorated function is called: wait_time = initial_wait. *)
RetryCall(kind, mr, iw) ==
    /\ rKind = "none"
    /\ kind \in WrappedMethods => mr = max_retries /\ iw = initial_wait
    /\ rKind' = kind
    /\ rMax' = mr
    /\ rWait' = iw
    /\ rAttempt' = 0
    /\ UNCHANGED <<rResponses, rSleeps, rResult, syncVars, cliVars, extVars>>

(* One iteration of a loop that retries every APIResponseError. *)
RetryAttemptAnyApiError(resp) ==
    /\ rKind # "none"
    /\ rResult = "none"
    /\ rResponses' = Append(rResponses, resp)
    /\ LET out == FuncOutcome(rKind, resp)
       IN IF out = "APIResponseError" /\ rAttempt < rMax
          THEN /\ rSleeps' = Append(rSleeps, rWait)
               /\ rWait' = rWait * 2
               /\ rAttempt' = rAttempt + 1
               /\ UNCHANGED rResult
          ELSE /\ rResult' = out
               /\ UNCHANGED <<rSleeps, rWait, rAttempt>>
    /\ UNCHANGED <<rKind, rMax, syncVars, cliVars, extVars>>

(* One iteration of the wrapper's loop. *)
RetryAttempt(resp) ==
    /\ rKind # "none"
    /\ rResult = "none"
    /\ rResponses' = Append(rResponses, resp)
    /\ LET out == FuncOutcome(rKind, resp)
       IN IF out = "APIResponseError" /\ StatusOf(resp) = RATE_LIMIT_STATUS
             /\ rAttempt < rMax
          THEN /\ rSleeps' = Append(rSleeps, rWait)
               /\ rWait' = rWait * 2
               /\ rAttempt' = rAttempt + 1
               /\ UNCHANGED rResult
          ELSE /\ rResult' = out
               /\ UNCHANGED <<rSleeps, rWait, rAttempt>>
    /\ UNCHANGED <<rKind, rMax, syncVars, cliVars, extVars>>

(* What an undecorated method does with the answer: its own handlers turn
   every exception into NotionValidationError, except that
   _check_type_property_exists answers False and get_database_page_count
   answers 0. *)
PlainOutcome(kind, resp) ==
    IF resp = "ok" THEN "returned"
    ELSE IF kind \in {"_check_type_property_exists", "get_database_page_count"}
         THEN "returned_default"
    ELSE "NotionValidationError"

(* An undecorated method is called: its body runs once, outside any
   wrapper. *)
PlainCall(kind, resp) ==
    /\ rKind = "none"
    /\ rKind' = kind
    /\ rResponses' = Append(rResponses, resp)
    /\ rResult' = PlainOutcome(kind, resp)
    /\ UNCHANGED <<rMax, rAttempt, rWait, rSleeps, syncVars, cliVars, extVars>>

NextRetry ==
    \/ \E kind \in WrappedMethods \cup {"api_call"},
          mr \in 0..max_retries, iw \in {initial_wait, 2 * initial_wait} :
          RetryCall(kind, mr, iw)
    \/ \E resp \in Responses : RetryAttempt(resp)
    \/ \E kind \in UndecoratedMethods, resp \in Responses :
          PlainCall(kind, resp)

SpecRetry == Init /\ [][NextRetry]_vars

(***************************************************************************)
(* The sync command (cli/sync.py) and the run lock.                        *)
(***************************************************************************)
(* LockManager.acquire: takes the lock when it is free, raises
   SyncInProgressError when it is held. *)
lock_acquire(holder, p) ==
    IF holder = 0 THEN [ok |-> TRUE, holder |-> p]
    ELSE [ok |-> FALSE, holder |-> holder]

(* LockManager.release. *)
lock_release(holder, p) == 0

cliOther == <<syncVars, retryVars, extVars>>

(* sys.exit(code) before the lock is taken: the process ends. *)
ExitNow(p, code) ==
    /\ exitCode' = [exitCode EXCEPT ![p] = code]
    /\ cliPc' = [cliPc EXCEPT ![p] = "exited"]

(* sys.exit(code) inside the try block: the finally block runs first. *)
ExitThroughFinally(p, code) ==
    /\ exitCode' = [exitCode EXCEPT ![p] = code]
    /\ cliPc' = [cliPc EXCEPT ![p] = "finally"]

(* The step that ends the invocation is remembered. *)
Because(p, cause) == cliCause' = [cliCause EXCEPT ![p] = cause]

(* The user starts `kobo-notion sync` with its flags. *)
CliInvoke(p, f, d) ==
    /\ cliPc[p] = "idle"
    /\ cliPc' = [cliPc EXCEPT ![p] = "acquire"]
    /\ cliFull' = [cliFull EXCEPT ![p] = f]
    /\ cliDry' = [cliDry EXCEPT ![p] = d]
    /\ UNCHANGED <<lockHolder, exitCode, cliIo, cliAcquired, cliCause, cliOther>>

(* CliAcquire, changed so that a held lock does not stop the invocation. *)
CliAcquireIgnoringLock(p) ==
    /\ cliPc[p] = "acquire"
    /\ LET r == lock_acquire(lockHolder, p)
       IN /\ lockHolder' = r.holder
          /\ cliAcquired' = IF r.ok THEN cliAcquired \cup {p} ELSE cliAcquired
          /\ cliPc' = [cliPc EXCEPT ![p] = "config"]
          /\ UNCHANGED exitCode
    /\ UNCHANGED <<cliFull, cliDry, cliIo, cliCause, cliOther>>

(* CliAcquire, changed so that the exit after a failed acquire happens
   inside the try/finally block. *)
CliAcquireExitingThroughFinally(p) ==
    /\ cliPc[p] = "acquire"
    /\ LET r == lock_acquire(lockHolder, p)
       IN IF r.ok
          THEN /\ lockHolder' = r.holder
               /\ cliAcquired' = cliAcquired \cup {p}
               /\ cliPc' = [cliPc EXCEPT ![p] = "config"]
               /\ UNCHANGED <<exitCode, cliCause>>
          ELSE /\ ExitThroughFinally(p, 1)
               /\ Because(p, "lock_held")
               /\ UNCHANGED <<lockHolder, cliAcquired>>
    /\ UNCHANGED <<cliFull, cliDry, cliIo, cliOther>>

(* Step 1: the pre-flight lock check. *)
CliAcquire(p) ==
    /\ cliPc[p] = "acquire"
    /\ LET r == lock_acquire(lockHolder, p)
       IN IF r.ok
          THEN /\ lockHolder' = r.holder
               /\ cliAcquired' = cliAcquired \cup {p}
               /\ cliPc' = [cliPc EXCEPT ![p] = "config"]
               /\ UNCHANGED <<exitCode, cliCause>>
          ELSE /\ ExitNow(p, 1)
               /\ Because(p, "lock_held")
               /\ UNCHANGED <<lockHolder, cliAcquired>>
    /\ UNCHANGED <<cliFull, cliDry, cliIo, cliOther>>

(* CliLoadConfig, changed so that a configuration error exits outside the
   try/finally block. *)
CliLoadConfigExitingAtOnce(p, outcome) ==
    /\ cliPc[p] = "config"
    /\ cliIo' = [cliIo EXCEPT ![p] = @ \cup {"config"}]
    /\ Because(p, IF outcome = "ok" THEN "none" ELSE outcome)
    /\ CASE outcome = "ok" ->
              /\ cliPc' = [cliPc EXCEPT ![p] = "token"]
              /\ UNCHANGED exitCode
         [] outcome = "ConfigurationError" -> ExitNow(p, 2)
         [] OTHER -> ExitThroughFinally(p, 1)
    /\ UNCHANGED <<lockHolder, cliFull, cliDry, cliAcquired, cliOther>>

(* Step 2: ConfigLoader().load(). *)
CliLoadConfig(p, outcome) ==
    /\ cliPc[p] = "config"
    /\ cliIo' = [cliIo EXCEPT ![p] = @ \cup {"config"}]
    /\ Because(p, IF outcome = "ok" THEN "none" ELSE outcome)
    /\ CASE outcome = "ok" ->
              /\ cliPc' = [cliPc EXCEPT ![p] = "token"]
              /\ UNCHANGED exitCode
         [] outcome = "ConfigurationError" -> ExitThroughFinally(p, 2)
         [] OTHER -> ExitThroughFinally(p, 1)
    /\ UNCHANGED <<lockHolder, cliFull, cliDry, cliAcquired, cliOther>>

(* Step 3: the token from the keychain. *)
CliGetToken(p, outcome) ==
    /\ cliPc[p] = "token"
    /\ cliIo' = [cliIo EXCEPT ![p] = @ \cup {"keychain"}]
    /\ Because(p, IF outcome = "token" THEN "none" ELSE "token_" \o outcome)
    /\ IF outcome = "token"
       THEN /\ cliPc' = [cliPc EXCEPT ![p] =
                            IF cliFull[p] /\ ~cliDry[p] THEN "confirm" ELSE "run"]
            /\ UNCHANGED exitCode
       ELSE ExitThroughFinally(p, 2)
    /\ UNCHANGED <<lockHolder, cliFull, cliDry, cliAcquired, cliOther>>

(* Step 3.5: the confirmation of a full sync. *)
CliConfirm(p, proceed) ==
    /\ cliPc[p] = "confirm"
    /\ IF proceed
       THEN /\ cliPc' = [cliPc EXCEPT ![p] = "run"]
            /\ UNCHANGED <<exitCode, cliCause>>
       ELSE ExitThroughFinally(p, 0) /\ Because(p, "declined")
    /\ UNCHANGED <<lockHolder, cliFull, cliDry, cliIo, cliAcquired, cliOther>>

(* The exit code of steps 4 and 5 for what sync_full did.  For a session
   with errors exit_code = 1 (the notification's use of duration_seconds is
   inside a handler that swallows its exception).  For a session without
   errors the status line formats sync_session.duration_seconds, end_time
   minus start_time: complete() stores a naive end_time, start_time is
   timezone-aware, the subtraction raises TypeError and the handler
   `except Exception` exits with 1.  An exception of the services exits
   with 1. *)
SummaryExitCode(outcome) ==
    CASE outcome = "session_errors" -> 1
      [] outcome = "session_ok" -> 1
      [] OTHER -> 1

(* Steps 4 and 5: the services are built, sync_full runs, the summary is
   printed.  outcome is what sync_full did: a session without or with
   errors, or an exception. *)
CliRunSync(p, outcome) ==
    /\ cliPc[p] = "run"
    /\ cliIo' = [cliIo EXCEPT ![p] = @ \cup {"device", "remote"}]
    /\ ExitThroughFinally(p, SummaryExitCode(outcome))
    /\ Because(p, outcome)
    /\ UNCHANGED <<lockHolder, cliFull, cliDry, cliAcquired, cliOther>>

(* finally: lock_manager.release(), then the process exits. *)
CliFinally(p) ==
    /\ cliPc[p] = "finally"
    /\ lockHolder' = lock_release(lockHolder, p)
    /\ cliPc' = [cliPc EXCEPT ![p] = "exited"]
    /\ UNCHANGED <<exitCode, cliFull, cliDry, cliIo, cliAcquired, cliCause, cliOther>>

ConfigOutcomes == {"ok", "ConfigurationError", "Exception"}
TokenOutcomes == {"token", "missing", "Exception"}
SyncOutcomes == {"session_ok", "session_errors", "NotionValidationError",
                 "SyncError", "Exception"}

NextCli ==
    \E p \in Procs :
        \/ \E f \in BOOLEAN, d \in BOOLEAN : CliInvoke(p, f, d)
        \/ CliAcquire(p)
        \/ \E o \in ConfigOutcomes : CliLoadConfig(p, o)
        \/ \E o \in TokenOutcomes : CliGetToken(p, o)
        \/ \E b \in BOOLEAN : CliConfirm(p, b)
        \/ \E o \in SyncOutcomes : CliRunSync(p, o)
        \/ CliFinally(p)

SpecCli == Init /\ [][NextCli]_vars

(***************************************************************************)
(* The tracked-page filters (services/notion_client.py) on a database that *)
(* holds manual pages besides the tracked ones.  A page is [cid, type]:    *)
(* cid 0 is an empty "Kobo Content ID", type is the value of the "Type"    *)
(* select ("none": empty).  The database has the Type property, as the     *)
(* setup creates it.                                                       *)
(***************************************************************************)
PageTypes == {"Kobo", "Manual", "none"}

(* _check_type_property_exists: the cached answer if there is one; else the
   database is retrieved, and a failure of that call is answered False. *)
check_type_property_exists(cache, retrieved) ==
    IF cache # "unset" THEN cache = "yes" ELSE retrieved

(* The cache after the check: only a successful retrieve is remembered. *)
TypeCacheAfter(cache, retrieved) ==
    IF cache = "unset" /\ retrieved THEN "yes" ELSE cache

(* The query of get_book_by_kobo_id: "Kobo Content ID" equals c, and
   Type equals "Kobo" only when has_type. *)
QueryByKoboId(db, c, has_type) ==
    {p \in DOMAIN db : db[p].cid = c /\ (has_type => db[p].type = "Kobo")}

(* The query of list_kobo_books: "Kobo Content ID" is not empty, and
   Type equals "Kobo" only when has_type. *)
list_kobo_books(db, has_type) ==
    {p \in DOMAIN db : db[p].cid # 0 /\ (has_type => db[p].type = "Kobo")}

filterOther == <<syncVars, retryVars, cliVars, cacheVars, hashVars,
                 extractVars, bookVars,
        orderVars, classifyVars>>

(* _sync_book_to_notion for book c, up to the page write: the lookup, then
   update_book_page on the page found or create_book_page.  retrieved is
   the outcome of databases.retrieve inside the type check. *)
FilterLookup(c, retrieved) ==
    /\ fDb # <<>>
    /\ LET has_type == check_type_property_exists(fTypeCache, retrieved)
           results == QueryByKoboId(fDb, c, has_type)
       IN /\ fTypeCache' = TypeCacheAfter(fTypeCache, retrieved)
          /\ IF results # {}
             THEN /\ fReturned' = fReturned \cup {Min(results)}
                  /\ fUpdated' = fUpdated \cup {Min(results)}
                  /\ UNCHANGED fDb
             ELSE /\ fDb' = fDb @@ (FreshId(fDb, {}) :> [cid |-> c, type |-> "Kobo"])
                  /\ UNCHANGED <<fReturned, fUpdated>>
    /\ UNCHANGED filterOther

(* list_kobo_books is called. *)
FilterList(retrieved) ==
    /\ fDb # <<>>
    /\ LET has_type == check_type_property_exists(fTypeCache, retrieved)
       IN /\ fTypeCache' = TypeCacheAfter(fTypeCache, retrieved)
          /\ fReturned' = fReturned \cup list_kobo_books(fDb, has_type)
    /\ UNCHANGED <<fDb, fUpdated, filterOther>>

InitFilter ==
    /\ InitSync /\ InitRetryIdle /\ InitCliIdle /\ InitCacheIdle
    /\ InitClassifyIdle
    /\ InitHashIdle /\ InitExtractIdle /\ InitBookIdle /\ InitOrderIdle
    /\ fDb \in [1..MaxPages -> [cid : 0..NumBooks, type : PageTypes]]
    /\ fTypeCache = "unset"
    /\ fReturned = {}
    /\ fUpdated = {}

NextFilter ==
    \/ \E c \in Books, retrieved \in BOOLEAN : FilterLookup(c, retrieved)
    \/ \E retrieved \in BOOLEAN : FilterList(retrieved)

SpecFilter == InitFilter /\ [][NextFilter]_vars

(***************************************************************************)
(* The highlight cache (services/cache_manager.py).  The store at CACHE_DB *)
(* is "missing" (no file), "valid" (a database with the highlights table), *)
(* "no_table" (a database without it) or "unreadable" (not a database).    *)
(* The table is the set of its rows, each a record of highlight_hash and   *)
(* book_id; every call opens its own connection and sees committed rows    *)
(* only.                                                                   *)
(***************************************************************************)
StoreKinds == {"missing", "valid", "no_table", "unreadable"}
Entry == [highlight_hash : Hashes, book_id : Books]
Batches == UNION {[1..n -> Entry] : n \in 0..MaxBatch}

(* has_highlight: False without a file, the SELECT on a valid store, and
   CacheCorruptionError when the SELECT raises sqlite3.Error. *)
has_highlight(file, rows, h) ==
    CASE file = "missing" -> "false"
      [] file = "valid" ->
            IF \E x \in rows : x.highlight_hash = h THEN "true" ELSE "false"
      [] OTHER -> "raised"

(* get_cached_highlights_for_book: the hashes of the rows of one book. *)
get_cached_highlights_for_book(file, rows, b) ==
    CASE file = "missing" -> {}
      [] file = "valid" -> {x.highlight_hash : x \in {y \in rows : y.book_id = b}}
      [] OTHER -> {"raised"}

(* validate_cache: valid with no entries without a file, invalid without
   the table or when the queries raise sqlite3.DatabaseError, else valid
   with the row count.  No branch raises. *)
validate_cache(file, rows) ==
    CASE file = "missing" -> [valid |-> TRUE, entry_count |-> 0]
      [] file = "valid" ->
            [valid |-> TRUE, entry_count |-> Cardinality(rows)]
      [] OTHER -> [valid |-> FALSE, entry_count |-> 0]

(* _ensure_schema on a fresh connection: CREATE TABLE IF NOT EXISTS runs
   outside any transaction and is committed at once; it raises on a file
   that is not a database. *)
ensure_schema(file) == IF file = "unreadable" THEN "unreadable" ELSE "valid"

(* A plain INSERT that meets no key constraint. *)
InsertPlain(rows, e) == rows \cup {e}

(* INSERT OR REPLACE INTO highlights, highlight_hash being the PRIMARY KEY:
   a row with the same hash is deleted before the new row is inserted. *)
InsertOrReplace(rows, e) ==
    {x \in rows : x.highlight_hash # e.highlight_hash} \cup {e}

(* DELETE FROM highlights WHERE book_id = b *)
DeleteBook(rows, b) == {x \in rows : x.book_id # b}

(* INSERT OR REPLACE of the first n entries of the batch, in order. *)
RECURSIVE InsertAll(_, _, _)
InsertAll(rows, batch, n) ==
    IF n = 0 THEN rows
    ELSE InsertOrReplace(InsertAll(rows, batch, n - 1), batch[n])

(* The rows other connections see afterwards, when every insert ignores the
   transaction and is committed by itself. *)
CommittedEachInsert(rows, working, failed) == working

(* The rows other connections see after the transaction of
   atomic_update_highlights: the inserts run between BEGIN TRANSACTION and
   conn.commit(), so a failure before the commit returns leaves the rows as
   they were and the working copy is dropped with the connection. *)
Committed(rows, working, failed) == IF failed THEN rows ELSE working

cacheOther == <<syncVars, retryVars, cliVars, filterVars, hashVars,
                extractVars, bookVars,
        orderVars, classifyVars>>

CacheCall(op, outcome) ==
    /\ cOp' = op
    /\ cOutcome' = outcome

NoUpdate ==
    /\ cBefore' = NoRows
    /\ cBatch' = <<>>
    /\ cFailAt' = 0
    /\ cBook' = 0

(* add_highlight(highlight_hash, book_id, notion_page_id): one INSERT OR
   REPLACE, committed. *)
CacheAdd(e) ==
    /\ cFile' = ensure_schema(cFile)
    /\ IF cFile = "unreadable"
       THEN /\ CacheCall("add", "raised")
            /\ UNCHANGED cRows
       ELSE /\ CacheCall("add", "ok")
            /\ cRows' = InsertOrReplace(cRows, e)
    /\ cBefore' = cRows
    /\ cBatch' = <<e>>
    /\ cFailAt' = 0
    /\ cBook' = 0
    /\ cValid' = NoValidation
    /\ cSeen' = "none"
    /\ UNCHANGED cacheOther

(* atomic_update_highlights(batch).  failAt = 0: nothing fails; failAt = k:
   the k-th execute of the loop raises; failAt = Len(batch) + 1: the commit
   raises. *)
CacheUpdate(batch, failAt) ==
    /\ failAt <= Len(batch) + 1
    /\ cBefore' = cRows
    /\ cBatch' = batch
    /\ cFailAt' = failAt
    /\ cBook' = 0
    /\ cFile' = ensure_schema(cFile)
    /\ IF cFile = "unreadable"
       THEN /\ CacheCall("update", "raised")
            /\ UNCHANGED cRows
       ELSE LET done == IF failAt = 0 THEN Len(batch)
                        ELSE Min({failAt - 1, Len(batch)})
                working == InsertAll(cRows, batch, done)
            IN /\ cRows' = Committed(cRows, working, failAt # 0)
               /\ CacheCall("update", IF failAt = 0 THEN "ok" ELSE "raised")
    /\ cValid' = NoValidation
    /\ cSeen' = "none"
    /\ UNCHANGED cacheOther

(* clear_book_highlights(b): the schema is ensured, the rows of the book
   are deleted, the deletion is committed. *)
CacheClear(b) ==
    /\ cBefore' = cRows
    /\ cBatch' = <<>>
    /\ cFailAt' = 0
    /\ cBook' = b
    /\ cFile' = ensure_schema(cFile)
    /\ IF cFile = "unreadable"
       THEN /\ CacheCall("clear", "raised")
            /\ UNCHANGED cRows
       ELSE /\ CacheCall("clear", "ok")
            /\ cRows' = DeleteBook(cRows, b)
    /\ cValid' = NoValidation
    /\ cSeen' = "none"
    /\ UNCHANGED cacheOther

(* validate_cache() *)
CacheValidate ==
    /\ cValid' = validate_cache(cFile, cRows)
    /\ CacheCall("validate", "ok")
    /\ NoUpdate
    /\ cSeen' = "none"
    /\ UNCHANGED <<cFile, cRows, cacheOther>>

(* The store after a rebuild that keeps the file and only creates the
   table where it can. *)
RebuildWithoutUnlink(file, rows) ==
    [file |-> ensure_schema(file), rows |-> rows]

(* The store after rebuild_cache: the file is unlinked and a database with
   the empty table is created in its place. *)
rebuild_cache(file, rows) == [file |-> "valid", rows |-> NoRows]

(* rebuild_cache() *)
CacheRebuild ==
    /\ cFile' = rebuild_cache(cFile, cRows).file
    /\ cRows' = rebuild_cache(cFile, cRows).rows
    /\ CacheCall("rebuild", "ok")
    /\ NoUpdate
    /\ cSeen' = "none"
    /\ UNCHANGED <<cValid, cacheOther>>

(* has_highlight(h) *)
CacheHas(h) ==
    /\ cSeen' = has_highlight(cFile, cRows, h)
    /\ CacheCall("has", IF cSeen' = "raised" THEN "raised" ELSE "ok")
    /\ NoUpdate
    /\ cValid' = NoValidation
    /\ UNCHANGED <<cFile, cRows, cacheOther>>

InitCache ==
    /\ InitSync /\ InitRetryIdle /\ InitCliIdle /\ InitFilterIdle
    /\ InitClassifyIdle
    /\ InitHashIdle /\ InitExtractIdle /\ InitBookIdle /\ InitOrderIdle
    /\ cFile \in StoreKinds
    /\ cRows = NoRows
    /\ cOp = "none"
    /\ cOutcome = "ok"
    /\ cBefore = NoRows
    /\ cBatch = <<>>
    /\ cFailAt = 0
    /\ cBook = 0
    /\ cValid = NoValidation
    /\ cSeen = "none"

NextCache ==
    \/ \E e \in Entry : CacheAdd(e)
    \/ \E batch \in Batches, failAt \in 0..(MaxBatch + 1) :
          CacheUpdate(batch, failAt)
    \/ \E b \in Books : CacheClear(b)
    \/ CacheValidate
    \/ CacheRebuild
    \/ \E h \in Hashes : CacheHas(h)

SpecCache == InitCache /\ [][NextCache]_vars

(***************************************************************************)
(* The deduplication hash (models/highlight.py).  A string is a sequence   *)
(* of characters; book ids and texts are strings over "a" and ":", and     *)
(* chapter_progress is None or a float.                                    *)
(***************************************************************************)
Chars == {"a", ":"}
StringsUpTo(n) == UNION {[1..k -> Chars] : k \in 1..n}
Progresses == {"None", "0.0", "1.0"}
Highlights ==
    [book_id : StringsUpTo(MaxIdLen), text : StringsUpTo(MaxTextLen),
     chapter_progress : Progresses]

(* str(chapter_progress) inside the f-string: "None" or the float's repr,
   one character here; it never contains ":". *)
FormatProgress(cp) ==
    CASE cp = "None" -> <<"N">>
      [] cp = "0.0" -> <<"0">>
      [] cp = "1.0" -> <<"1">>

(* content = f"{self.book_id}:{self.text}:{self.chapter_progress}" *)
HashContent(h) ==
    h.book_id \o <<":">> \o h.text \o <<":">> \o FormatProgress(h.chapter_progress)

CharCode(c) ==
    CASE c = "a" -> 1 [] c = ":" -> 2 [] c = "N" -> 3 [] c = "0" -> 4
      [] c = "1" -> 5

(* hashlib.sha256(content.encode("utf-8")).hexdigest(), taken as
   collision-free: an injective numbering of the strings. *)
RECURSIVE sha256(_)
sha256(str) ==
    IF str = <<>> THEN 0 ELSE CharCode(Head(str)) + 5 * sha256(Tail(str))

(* Highlight.highlight_id *)
highlight_id(h) == sha256(HashContent(h))

hashOther == <<syncVars, retryVars, cliVars, filterVars, cacheVars,
               extractVars, bookVars,
        orderVars, classifyVars>>

(* highlight_id is read on the first highlight. *)
HashFirst ==
    /\ idA' = highlight_id(hlA)
    /\ UNCHANGED <<hlA, hlB, idB, hashOther>>

(* highlight_id is read on the second highlight. *)
HashSecond ==
    /\ idB' = highlight_id(hlB)
    /\ UNCHANGED <<hlA, hlB, idA, hashOther>>

InitHash ==
    /\ InitSync /\ InitRetryIdle /\ InitCliIdle /\ InitFilterIdle
    /\ InitClassifyIdle
    /\ InitCacheIdle /\ InitExtractIdle /\ InitBookIdle /\ InitOrderIdle
    /\ hlA \in Highlights
    /\ hlB \in Highlights
    /\ idA = -1
    /\ idB = -1

NextHash == HashFirst \/ HashSecond

SpecHash == InitHash /\ [][NextHash]_vars

(***************************************************************************)
(* The row loops of the extractor (services/kobo_extractor.py).  A book    *)
(* row carries its ContentID (0: NULL) and the length of its ISBN (0:      *)
(* NULL); a highlight row carries its Text ("": NULL or empty) and its     *)
(* ChapterProgress (-1: NULL).  The other columns are well-formed.  The    *)
(* items of a result are the positions of the rows it was built from.      *)
(***************************************************************************)
BookRows == [kobo_content_id : 0..NumBooks, isbn_len : {0, 13, 17}]
HlRows == [text : {"", "t"}, chapter_progress : {-1, 50, 150}]
TablesOf(R) == UNION {[1..n -> R] : n \in 0..MaxRows}

(* Book(...) validates: kobo_content_id is a str of min_length 1, the ISBN
   if present has 10 or 13 characters. *)
BookRowValid(row) ==
    /\ row.kobo_content_id # 0
    /\ row.isbn_len \in {0, 10, 13}

(* Highlight(...) validates: text (row["text"] or "") has min_length 1,
   chapter_progress is None or within 0..100. *)
HlRowValid(row) ==
    /\ row.text # ""
    /\ row.chapter_progress = -1 \/ row.chapter_progress \in 0..100

(* The inner except clause of both loops: the logger.error call reads
   row.get(...), sqlite3.Row has no get, and the AttributeError leaves the
   loop for the outer `except Exception`, which raises KoboDeviceError. *)
RowHandler(acc) == [outcome |-> "KoboDeviceError", items |-> <<>>]

(* for row in rows: ... books.append(book) / except Exception *)
RECURSIVE BookLoop(_, _, _)
BookLoop(rows, i, acc) ==
    IF i > Len(rows) THEN [outcome |-> "returned", items |-> acc]
    ELSE IF BookRowValid(rows[i]) THEN BookLoop(rows, i + 1, Append(acc, i))
    ELSE RowHandler(acc)

(* for row in rows: ... highlights.append(highlight) / except Exception *)
RECURSIVE HighlightLoop(_, _, _)
HighlightLoop(rows, i, acc) ==
    IF i > Len(rows) THEN [outcome |-> "returned", items |-> acc]
    ELSE IF HlRowValid(rows[i])
         THEN HighlightLoop(rows, i + 1, Append(acc, i))
    ELSE RowHandler(acc)

extractOther == <<syncVars, retryVars, cliVars, filterVars, cacheVars,
                  hashVars, bookVars,
        orderVars, classifyVars>>

(* extract_books() on a connected device *)
ExtractBookRows ==
    /\ xBooks' = BookLoop(xBookRows, 1, <<>>)
    /\ UNCHANGED <<xBookRows, xHlRows, xHighlights, extractOther>>

(* extract_highlights(book_id) on a connected device *)
ExtractHighlightRows ==
    /\ xHighlights' = HighlightLoop(xHlRows, 1, <<>>)
    /\ UNCHANGED <<xBookRows, xHlRows, xBooks, extractOther>>

InitExtract ==
    /\ InitSync /\ InitRetryIdle /\ InitCliIdle /\ InitFilterIdle
    /\ InitClassifyIdle
    /\ InitCacheIdle /\ InitHashIdle /\ InitBookIdle /\ InitOrderIdle
    /\ xBookRows \in TablesOf(BookRows)
    /\ xHlRows \in TablesOf(HlRows)
    /\ xBooks = NotCalled
    /\ xHighlights = NotCalled

NextExtract == ExtractBookRows \/ ExtractHighlightRows

SpecExtract == InitExtract /\ [][NextExtract]_vars

(***************************************************************************)
(* The derived status of a book (models/book.py).  percent_read is taken   *)
(* in whole percents, read_status is the Kobo code 0..2.                   *)
(***************************************************************************)
Percents == 0..MaxPercent
ReadStatuses == 0..MaxReadStatus

(* progress_code, with the read status looked at first. *)
ProgressCodeStatusFirst(percent_read, read_status) ==
    IF read_status = 2 THEN "Finished"
    ELSE IF percent_read = 0 THEN "New"
    ELSE "Reading"

(* progress_code, derived from the percentage alone. *)
ProgressCodeByPercentOnly(percent_read, read_status) ==
    IF percent_read = 0 THEN "New"
    ELSE IF percent_read = MaxPercent THEN "Finished"
    ELSE "Reading"

(* Book.progress_code *)
progress_code(percent_read, read_status) ==
    IF percent_read = 0 THEN "New"
    ELSE IF read_status = 2 THEN "Finished"
    ELSE "Reading"

bookOther == <<syncVars, retryVars, cliVars, filterVars, cacheVars, hashVars,
               extractVars,
        orderVars, classifyVars>>

(* progress_code is read on the book. *)
ReadProgressCode ==
    /\ bkCode' = progress_code(bkPercent, bkReadStatus)
    /\ UNCHANGED <<bkPercent, bkReadStatus, bookOther>>

InitBook ==
    /\ InitSync /\ InitRetryIdle /\ InitCliIdle /\ InitFilterIdle
    /\ InitClassifyIdle
    /\ InitCacheIdle /\ InitHashIdle /\ InitExtractIdle /\ InitOrderIdle
    /\ bkPercent \in Percents
    /\ bkReadStatus \in ReadStatuses
    /\ bkCode = "none"

NextBook == ReadProgressCode

SpecBook == InitBook /\ [][NextBook]_vars

(***************************************************************************)
(* The highlights of one new book on their way to its page:                *)
(* extract_highlights (services/kobo_extractor.py), the highlights_data    *)
(* list of _sync_book_to_notion (services/sync_manager.py) and             *)
(* create_highlight_blocks (services/notion_client.py).  A Bookmark row    *)
(* is its number; its stored DateCreated is a timestamp 1..MaxTs or 0 for  *)
(* NULL.  Every row is well-formed.                                        *)
(***************************************************************************)
(* datetime.now() at extraction time: later than every stored timestamp. *)
Now == MaxTs + 1

ResultOrders(n) ==
    {q \in [1..n -> 1..n] : \A i, j \in 1..n : i # j => q[i] # q[j]}

(* A result order that satisfies ORDER BY DateCreated DESC. *)
OrderedByDateCreatedDesc(q, dates) ==
    \A i, j \in DOMAIN q : i < j => dates[q[i]] >= dates[q[j]]

(* A result order that satisfies ORDER BY b.DateCreated ASC: NULL sorts
   before every value, rows with equal values come in any order. *)
OrderedByDateCreated(q, dates) ==
    \A i, j \in DOMAIN q : i < j => dates[q[i]] <= dates[q[j]]

(* The Highlight built from a row: date_created is the parsed column, or
   datetime.now() when the column is empty. *)
HighlightOfRow(r, dates) ==
    [row |-> r, date_created |-> IF dates[r] # 0 THEN dates[r] ELSE Now]

(* highlights_data: one dict per highlight, in list order. *)
highlights_data(hls) ==
    [i \in DOMAIN hls |-> [text |-> hls[i].row,
                           date_created |-> hls[i].date_created]]

(* The blocks of create_highlight_blocks: the section heading, then for
   each highlight its heading_3, its metadata paragraph and a divider, then
   the statistics heading and paragraph. *)
RECURSIVE HighlightBlocks(_)
HighlightBlocks(data) ==
    IF data = <<>> THEN <<>>
    ELSE <<[type |-> "heading_3", text |-> Head(data).text],
           [type |-> "paragraph", text |-> Head(data).date_created],
           [type |-> "divider", text |-> 0]>>
         \o HighlightBlocks(Tail(data))

create_highlight_blocks(data) ==
    <<[type |-> "heading_2", text |-> Len(data)]>>
    \o HighlightBlocks(data)
    \o <<[type |-> "heading_2", text |-> 0],
         [type |-> "paragraph", text |-> Len(data)]>>

orderOther == <<syncVars, retryVars, cliVars, filterVars, cacheVars, hashVars,
                extractVars, bookVars, classifyVars>>

(* extract_highlights(book_id): the query result in its order, one
   Highlight per row. *)
OrderExtract ==
    /\ oPc = "rows"
    /\ \E q \in ResultOrders(Len(oDates)) :
          /\ OrderedByDateCreated(q, oDates)
          /\ oHighlights' = [i \in DOMAIN q |-> HighlightOfRow(q[i], oDates)]
    /\ oPc' = "extracted"
    /\ UNCHANGED <<oDates, oBlocks, orderOther>>

(* _sync_book_to_notion for a new page: highlights_data is built and
   create_highlight_blocks appends its blocks in one call. *)
OrderWrite ==
    /\ oPc = "extracted"
    /\ oHighlights # <<>>
    /\ oBlocks' = create_highlight_blocks(highlights_data(oHighlights))
    /\ oPc' = "written"
    /\ UNCHANGED <<oDates, oHighlights, orderOther>>

InitOrder ==
    /\ InitSync /\ InitRetryIdle /\ InitCliIdle /\ InitFilterIdle
    /\ InitClassifyIdle
    /\ InitCacheIdle /\ InitHashIdle /\ InitExtractIdle /\ InitBookIdle
    /\ oDates \in UNION {[1..n -> 0..MaxTs] : n \in 0..MaxHl}
    /\ oHighlights = <<>>
    /\ oBlocks = <<>>
    /\ oPc = "rows"

NextOrder == OrderExtract \/ OrderWrite

SpecOrder == InitOrder /\ [][NextOrder]_vars

(***************************************************************************)
(* The classification of sync_full (step 2.7) and the session counters     *)
(* that follow it, on lists of extracted books that may hold one content   *)
(* id twice: extract_books returns one Book per row of the content table   *)
(* and does not compare content ids.                                       *)
(***************************************************************************)
ExtractedBooks == [cid : Books, date_last_read : 0..MaxTs]
BookLists == UNION {[1..n -> ExtractedBooks] : n \in 0..MaxList}

(* A mapping of some content ids to the date and the id of their page. *)
Mappings ==
    UNION {{[c \in S |-> [last_read_date |-> d[c], page_id |-> c]] :
               d \in [S -> 0..DateOf(MaxTs)]} : S \in SUBSET Books}

(* Lines 254-257: the counters are the lengths of the two name lists and
   the size of the set books_to_process. *)
TrackingCounters(s, bs, d) ==
    [s EXCEPT !.books_created = Len(d.created),
              !.books_updated = Len(d.updated),
              !.books_processed = Cardinality(d.proc),
              !.books_skipped = Len(bs) - Cardinality(d.proc)]

classifyOther == <<syncVars, retryVars, cliVars, filterVars, cacheVars,
                   hashVars, extractVars, bookVars, orderVars>>

(* Lines 180-258 of sync_full on the extracted list and the mapping. *)
ClassifyList ==
    /\ kPc = "extracted"
    /\ kSession' = TrackingCounters(kSession, kBooks,
                                    Classify(kBooks, kMapping, Len(kBooks)))
    /\ kPc' = "classified"
    /\ UNCHANGED <<kBooks, kMapping, classifyOther>>

InitClassify ==
    /\ InitSync /\ InitRetryIdle /\ InitCliIdle /\ InitFilterIdle
    /\ InitCacheIdle /\ InitHashIdle /\ InitExtractIdle /\ InitBookIdle
    /\ InitOrderIdle
    /\ kBooks \in BookLists
    /\ kMapping \in Mappings
    /\ kSession = [NewSession EXCEPT !.books_processed = Len(kBooks)]
    /\ kPc = "extracted"

NextClassify == ClassifyList

SpecClassify == InitClassify /\ [][NextClassify]_vars

(***************************************************************************)
(* Properties of the sync orchestrator (Spec).                             *)
(***************************************************************************)
RemoteMutations == PageWrites \cup {"set_cover_image"}

PerBookOps == {"extract_highlights", "get_book_by_kobo_id", "create_book_page",
               "update_book_page", "update_book_status_to_completed",
               "get_cover_url", "set_cover_image", "create_highlight_blocks",
               "update_highlight_blocks", "update_sync_metadata"}

OpsOf(o, names, c) == {i \in DOMAIN o : o[i].op \in names /\ o[i].cid = c}

LastRun == hist[Len(hist)]
PrevRun == hist[Len(hist) - 1]

(* The run had no failure, reached the normal end and was not a dry run. *)
Settled(r) == r.normal /\ ~r.faulty /\ ~r.dry

(* The session had no error when the run reached its normal end: the only
   error is the one the summary log adds after session.complete(). *)
NoErrorAtCompletion(r) ==
    r.normal /\ SelectSeq(r.errors, LAMBDA e : e # "Unexpected sync error") = <<>>

(* C1: a run started with dry_run issues no remote mutation: no page is
   created, updated or archived, no highlight block or cover is written. *)
DryRunIssuesNoRemoteMutation ==
    dry_run => \A i \in DOMAIN ops : ops[i].op \notin RemoteMutations

(* A dry run has finished classification and per-book extraction. *)
DryRunReachedEnd == dry_run /\ pc = "done" /\ session.books_processed > 0

(* C2: after an incremental run that reached its end with no session error,
   an immediately following failure-free incremental run over the same
   device state issues no page write. *)
RepeatedRunWritesNothing ==
    \A k \in 1..(Len(hist) - 1) :
        LET a == hist[k]
            b == hist[k + 1]
        IN (/\ NoErrorAtCompletion(a) /\ ~a.dry /\ ~a.full
            /\ b.normal /\ ~b.faulty /\ ~b.full
            /\ b.dev = a.dev)
           => b.ops = <<>>

(* A book's page was written in run r and a later write of its highlight
   blocks or sync metadata failed. *)
PageWrittenThenFailed(r, c) ==
    \E i \in DOMAIN r.ops, j \in DOMAIN r.ops :
        /\ i < j
        /\ r.ops[i] \in {Op("create_book_page", c, TRUE),
                         Op("update_book_page", c, TRUE)}
        /\ r.ops[j] \in {Op("create_highlight_blocks", c, FALSE),
                         Op("update_highlight_blocks", c, FALSE),
                         Op("update_sync_metadata", c, FALSE)}

(* C4: a book whose remote writes failed part-way in one run is delivered
   by the next failure-free run over the same device state: afterwards a
   remote page of the book holds all of its device highlights. *)
InterruptedBookDeliveredByNextRun ==
    (pc = "done" /\ Len(hist) >= 2)
    => \A c \in Books :
          (/\ PageWrittenThenFailed(PrevRun, c)
           /\ LastRun.dev = PrevRun.dev
           /\ Settled(LastRun))
          => \E p \in LivePagesOf(pages, c) : pages[p].hl = HighlightCount(c)

(* C5: every failed operation of per-book processing (the cover apart) is
   recorded as a session error, and at the normal end every book that
   needed processing has been attempted. *)
PerBookFailureRecorded ==
    /\ Cardinality({i \in DOMAIN ops :
            ~ops[i].ok /\ ops[i].op \in PerBookOps \ {"get_cover_url", "set_cover_image"}})
         <= Len(SelectSeq(session.errors, LAMBDA e : e = "Failed to sync book"))
    /\ pc = "log" =>
          \A c \in books_to_process : OpsOf(ops, {"extract_highlights"}, c) # {}

(* C6: every run returns a session whose end timestamp is set and which was
   finalized exactly once. *)
SessionFinalizedOnce ==
    pc = "done" => EndTimeSet(session) /\ session.completes = 1

(* A run returned early, with its session finalized. *)
EarlyReturnFinalized == pc = "done" /\ ~LastRun.normal /\ session.completes = 1

(* C9: every operation of per-book processing is preceded by a successful
   connection check for its book, and a failed connection check records the
   disconnect error, finalizes the session and ends the run: no operation
   follows it. *)
DisconnectHaltsRun ==
    /\ \A i \in DOMAIN ops :
          ops[i].op \in PerBookOps =>
             \E j \in 1..(i - 1) : ops[j] = Op("check_device", ops[i].cid, TRUE)
    /\ \A i \in DOMAIN ops :
          (ops[i].op = "check_device" /\ ~ops[i].ok) =>
             /\ i = Len(ops)
             /\ pc = "done"
             /\ EndTimeSet(session)
             /\ session.errors # <<>>
             /\ session.errors[Len(session.errors)] =
                   "Kobo device disconnected during sync - halting"

(* The device was unplugged after one book had been handled: the check of
   the next book failed. *)
DisconnectAfterFirstBook ==
    \E i \in DOMAIN ops, j \in DOMAIN ops :
        /\ j < i
        /\ ops[j].op = "extract_highlights" /\ ops[j].ok
        /\ ops[i].op = "check_device" /\ ~ops[i].ok
        /\ books_to_process # {ops[j].cid}

(* Book c is tracked after run r1, its last-read date advances before r2 and
   the device is left alone before r3; the three runs are failure-free and
   r2, r3 incremental. *)
DateAdvanced(r1, r2, r3, c) ==
    /\ Settled(r1) /\ Settled(r2) /\ Settled(r3)
    /\ ~r2.full /\ ~r3.full
    /\ DateOf(r2.dev[c]) > DateOf(r1.dev[c])
    /\ r3.dev = r2.dev

(* C10: for a tracked book whose last-read date advanced, the run archives
   its old page once and afterwards creates one new page (it does not update
   in place), and the following run does not write to the book; when that
   run has returned the book has exactly one remote page. *)
ChangedBookRecreatedOnce ==
    \A k \in 1..(Len(hist) - 2) : \A c \in Books :
        DateAdvanced(hist[k], hist[k + 1], hist[k + 2], c) =>
            LET o == hist[k + 1].ops
            IN /\ Cardinality(OpsOf(o, {"archive_page"}, c)) = 1
               /\ Cardinality(OpsOf(o, {"create_book_page"}, c)) = 1
               /\ OpsOf(o, {"update_book_page"}, c) = {}
               /\ \A i \in OpsOf(o, {"archive_page"}, c),
                     j \in OpsOf(o, {"create_book_page"}, c) :
                        i < j /\ o[j].ok
               /\ OpsOf(hist[k + 2].ops, PageWrites, c) = {}
               /\ (k + 2 = Len(hist) /\ pc = "done") =>
                     Cardinality(LivePagesOf(pages, c)) = 1

(* Three runs with a date change before the second have finished. *)
ChangedBookSynced ==
    /\ Len(hist) = 3
    /\ \E c \in Books :
          /\ DateAdvanced(hist[1], hist[2], hist[3], c)
          /\ \E p \in LivePagesOf(pages, c) :
                pages[p].lastRead = DateOf(devLastRead[c])

(* C11: in full mode the delete of all tracked pages succeeds before the
   books are extracted and before any page is written, no tracked page is
   left when extraction starts, and a failure-free full run creates one new
   page for every book and updates none in place. *)
FullModeStartsFromCleanSlate ==
    /\ full_mode =>
          \A i \in DOMAIN ops :
             ops[i].op \in PerBookOps \cup {"extract_books", "delete_pages_batch"} =>
                \E j \in 1..(i - 1) : ops[j] = Op("delete_all_kobo_books", 0, TRUE)
    /\ (full_mode /\ pc = "extract") => LivePages(pages) = {}
    /\ \A k \in DOMAIN hist :
          (hist[k].full /\ Settled(hist[k])) =>
             \A c \in Books :
                /\ Cardinality(OpsOf(hist[k].ops, {"create_book_page"}, c)) = 1
                /\ OpsOf(hist[k].ops, {"update_book_page", "update_highlight_blocks"}, c) = {}

(* A full run over an unchanged device has archived the pages of the run
   before it and created them again. *)
FullRunRecreatedUnchangedBooks ==
    /\ pc = "done" /\ Len(hist) >= 2
    /\ LastRun.full /\ Settled(LastRun) /\ Settled(PrevRun)
    /\ LastRun.dev = PrevRun.dev
    /\ \A c \in Books : OpsOf(LastRun.ops, {"archive_page"}, c) # {}
    /\ \A c \in Books : LivePagesOf(pages, c) # {}

(* The books whose tracked page the classification marked for deletion. *)
MarkedBooks ==
    {c \in DOMAIN notion_books_mapping :
        notion_books_mapping[c].page_id \in SeqToSet(books_to_delete_ids)}

(* C12: when pages are marked for re-creation, delete_pages_batch is issued
   before the first page creation or update of the run; a marked book gets
   a new page only after its old page was archived, and no book ever has
   two tracked pages. *)
BatchDeleteBeforeRecreation ==
    /\ \A i \in DOMAIN ops :
          (ops[i].op \in {"create_book_page", "update_book_page"}
              /\ books_to_delete_ids # <<>>) =>
             \E j \in 1..(i - 1) : ops[j].op = "delete_pages_batch"
    /\ \A c \in MarkedBooks : \A i \in OpsOf(ops, {"create_book_page"}, c) :
          \E j \in OpsOf(ops, {"archive_page"}, c) : j < i
    /\ \A c \in Books : Cardinality(LivePagesOf(pages, c)) <= 1

(* A marked book has got its new page, after a batch delete. *)
MarkedBookRecreated ==
    \E c \in MarkedBooks :
        /\ Op("create_book_page", c, TRUE) \in SeqToSet(ops)
        /\ Op("delete_pages_batch", 0, TRUE) \in SeqToSet(ops)

(* The calendar day of a device timestamp, 0 for none: the day d whose
   TimesPerDay timestamps include ts. *)
Day(ts) ==
    IF ts = 0 THEN 0
    ELSE CHOOSE d \in 1..ts : (d - 1) * TimesPerDay < ts /\ ts <= d * TimesPerDay

(* C13: after classification a book is marked for processing iff it is
   absent from the mapping or its device day differs from the remote date;
   its remote page is marked for deletion iff it is present and the days
   differ; with equal days it is neither (skip), whatever the time of day. *)
ClassificationByDate ==
    pc = "batchdel" =>
        \A i \in DOMAIN books :
            LET c == books[i].cid
                present == c \in DOMAIN notion_books_mapping
                differs == present /\
                    Day(books[i].date_last_read) # notion_books_mapping[c].last_read_date
            IN /\ c \in books_to_process <=> (~present \/ differs)
               /\ c \in MarkedBooks <=> differs
               /\ (present /\ ~differs) => (c \notin books_to_process /\ c \notin MarkedBooks)

(* One book was read again on the day already recorded and is skipped while
   another one, read on a new day, is marked for re-creation. *)
SameDayReadSkipped ==
    /\ pc = "batchdel" /\ Len(hist) >= 1
    /\ \E c \in DOMAIN notion_books_mapping \ books_to_process :
          devLastRead[c] # LastRun.dev[c]
    /\ MarkedBooks # {}

(* C14: for a book classified skip the run issues no connection check, no
   highlight extraction, no cover lookup and no remote call or page delete
   concerning it, in either processing loop. *)
SkippedBookUntouched ==
    \A c \in DOMAIN notion_books_mapping \ books_to_process :
        OpsOf(ops, PerBookOps \cup {"check_device", "archive_page"}, c) = {}

(* A run has gone through both loops with one book skipped and another
   processed. *)
RunWithSkippedBook ==
    /\ pc = "log" /\ ~dry_run
    /\ DOMAIN notion_books_mapping \ books_to_process # {}
    /\ \E c \in books_to_process : Op("update_sync_metadata", c, TRUE) \in SeqToSet(ops)

(***************************************************************************)
(* Properties of the tracked-page filters (SpecFilter).                    *)
(***************************************************************************)
(* C15: a page whose content id is empty or whose Type is not "Kobo" is
   never returned by the lookup or the listing and never written by sync,
   also when the check for the Type property fails. *)
ManualPagesProtected ==
    \A p \in fReturned \cup fUpdated :
        fDb[p].cid # 0 /\ fDb[p].type = "Kobo"

(* With a successful type check, a lookup has passed over a manual page
   that carries the content id of a device book. *)
ManualPagePassedOver ==
    /\ fTypeCache = "yes"
    /\ \E p \in DOMAIN fDb :
          fDb[p].cid # 0 /\ fDb[p].type = "Manual" /\ p \notin fReturned
    /\ fReturned # {}

(***************************************************************************)
(* Further properties of the sync orchestrator (Spec).                     *)
(***************************************************************************)
(* C23: a failed device verification at the start of a run records the
   error, finalizes the session and returns: the failed detection is the
   only operation of the run, so nothing is extracted and no remote call,
   the full-mode deletion included, is made. *)
DeviceFailureReturnsAtOnce ==
    \A i \in DOMAIN ops :
        (ops[i].op = "detect_device" /\ ~ops[i].ok) =>
            /\ ops = <<Op("detect_device", 0, FALSE)>>
            /\ pc = "done"
            /\ session.errors = <<"Kobo device not found">>
            /\ EndTimeSet(session) /\ session.completes = 1
            /\ books = <<>>

(* A full-mode run over a database with tracked pages returned at the
   failed device verification. *)
FullRunStoppedAtDevice ==
    /\ pc = "done" /\ full_mode
    /\ ops = <<Op("detect_device", 0, FALSE)>>
    /\ LivePages(pages) # {}

(* C24: once the session is finalized, its counters, its error list and
   its end timestamp stay as they are for the rest of the run, whichever
   way sync_full ends. *)
FinalizedSessionFrozen ==
    [][(EndTimeSet(session) /\ run' = run) => session' = session]_vars

(* A run that ended at the device check, finalized once with the one error
   of that check. *)
DeviceAbortLeftSessionFinal ==
    /\ pc = "done"
    /\ session.completes = 1
    /\ session.errors = <<"Kobo device not found">>

(* C25: the derived status of the session is Success iff the error list is
   empty, Partial iff it is not and at least one highlight was synced,
   Failed iff it is not and none was; it is one of the three in every
   state. *)
SessionStatusDerivation ==
    LET st == status(session)
        hasErrors == Len(session.errors) >= 1
        synced == session.highlights_synced
    IN /\ st \in {"success", "partial", "failed"}
       /\ st = "success" <=> ~hasErrors
       /\ st = "partial" <=> (hasErrors /\ synced >= 1)
       /\ st = "failed" <=> (hasErrors /\ synced = 0)

(* A finished run with errors and synced highlights, after a finished run
   with an error and none. *)
PartialAfterFailedSession ==
    /\ pc = "done" /\ Len(hist) >= 2
    /\ session.errors # <<>> /\ session.highlights_synced >= 1
    /\ status(session) = "partial"
    /\ ~PrevRun.normal

(* C29: a failed cover lookup or a failed set_cover_image for a book does
   not keep the book's highlight write and sync-metadata update from being
   made, adds nothing to the session's error list and does not end the
   run: the call after the failed one is the highlight write of the book
   (the metadata update when it has no highlights), and the metadata
   update follows a highlight write that succeeded. *)
CoverFailureIsNotFatal ==
    [][\A i \in (Len(ops) + 1)..Len(ops') :
          (pc = "step4"
           /\ ops'[i].op \in {"get_cover_url", "set_cover_image"}
           /\ ~ops'[i].ok) =>
             LET c == ops'[i].cid
                 HlWrites == {"create_highlight_blocks",
                              "update_highlight_blocks"}
             IN /\ session' = session
                /\ pc' \in {"step4", "complete"}
                /\ i < Len(ops') /\ ops'[i + 1].cid = c
                /\ IF HighlightCount(c) > 0
                   THEN /\ ops'[i + 1].op \in HlWrites
                        /\ ops'[i + 1].ok =>
                              /\ i + 1 < Len(ops')
                              /\ ops'[i + 2].op = "update_sync_metadata"
                              /\ ops'[i + 2].cid = c
                   ELSE ops'[i + 1].op = "update_sync_metadata"]_vars

(* A run in which set_cover_image failed for a book with highlights, whose
   highlight write and metadata update then succeeded. *)
CoverFailedBookSynced ==
    \E i \in DOMAIN ops :
        /\ ops[i].op = "set_cover_image" /\ ~ops[i].ok
        /\ HighlightCount(ops[i].cid) > 0
        /\ \E j \in (i + 1)..Len(ops) :
              ops[j] = Op("update_sync_metadata", ops[i].cid, TRUE)

(* C31: whatever runs came before (incremental, full, aborted part-way,
   with a failed batch delete or a failed mapping fetch), the remote
   database holds at most one tracked page for each content id; the
   content-id lookup of the model sees every page written so far. *)
OnePagePerContentId ==
    \A c \in Books : Cardinality(LivePagesOf(pages, c)) <= 1

(* A run whose batch delete failed and left the marked page of a book in
   place, and which then wrote that book again. *)
RewrittenAfterFailedBatchDelete ==
    /\ pc = "done"
    /\ \E i \in DOMAIN ops :
          /\ ops[i] = Op("delete_pages_batch", 0, FALSE)
          /\ \E c \in Books, j \in (i + 1)..Len(ops) :
                /\ ops[j] = Op("update_book_page", c, TRUE)
                /\ Cardinality(LivePagesOf(pages, c)) = 1

MappingFetchFailed(o) ==
    \E i \in DOMAIN o : o[i] = Op("get_kobo_books_mapping", 0, FALSE)

(* C34: once the batch fetch of the mapping has failed, the run goes on
   with an empty mapping: every extracted book is to be processed and is
   counted as created, no page is marked for deletion and no batch delete
   is issued, the failure adds no error to the session; and the page write
   for a book that has a tracked page is an update of that page, which
   leaves the set of its pages as it was, while a page is created only for
   a book that has none. *)
FailedMappingFetchContinues ==
    [][MappingFetchFailed(ops') =>
          /\ notion_books_mapping' = <<>>
          /\ books_to_process' = {books'[i].cid : i \in DOMAIN books'}
          /\ books_to_delete_ids' = <<>>
          /\ \A i \in DOMAIN ops' : ops'[i].op # "delete_pages_batch"
          /\ ~MappingFetchFailed(ops) =>
                /\ pc' = "batchdel"
                /\ session' = session
          /\ pc' \notin {"mapping", "batchdel"} =>
                /\ session'.books_created = Len(books')
                /\ session'.books_updated = 0
                /\ session'.books_skipped = 0
          /\ \A i \in (Len(ops) + 1)..Len(ops') :
                LET c == ops'[i].cid
                IN /\ ops'[i].op = "update_book_page" =>
                         /\ LivePagesOf(pages, c) # {}
                         /\ LivePagesOf(pages', c) = LivePagesOf(pages, c)
                   /\ ops'[i].op = "create_book_page" =>
                         LivePagesOf(pages, c) = {}]_vars

(* A run whose mapping fetch failed while the book had a page, and which
   then wrote that book again. *)
RewrittenAfterFailedMappingFetch ==
    /\ pc = "done"
    /\ \E i \in DOMAIN ops :
          /\ ops[i] = Op("get_kobo_books_mapping", 0, FALSE)
          /\ \E c \in Books, j \in (i + 1)..Len(ops) :
                /\ ops[j] = Op("update_book_page", c, TRUE)
                /\ Cardinality(LivePagesOf(pages, c)) = 1

(* Place of a remote call in the work on one book. *)
StageOfOp(name) ==
    CASE name = "get_book_by_kobo_id" -> 1
      [] name \in {"create_book_page", "update_book_page"} -> 2
      [] name = "update_book_status_to_completed" -> 3
      [] name = "get_cover_url" -> 4
      [] name = "set_cover_image" -> 5
      [] name \in {"create_highlight_blocks", "update_highlight_blocks"} -> 6
      [] name = "update_sync_metadata" -> 7
      [] OTHER -> 0

BookCalls(c) == {i \in DOMAIN ops : ops[i].cid = c /\ StageOfOp(ops[i].op) > 0}

(* C32: the remote calls made for one book come in the order page lookup,
   page create or update, cover image, highlight blocks, sync metadata,
   each at most once in a run; the sync-metadata write of a book is made
   only after a page lookup and a page write of that book that succeeded
   and, when the book has highlights, a highlight write that succeeded,
   and after no failed call of that book other than a cover call. *)
PerBookCallOrder ==
    \A c \in Books :
        /\ \A i, j \in BookCalls(c) :
              i < j => StageOfOp(ops[i].op) < StageOfOp(ops[j].op)
        /\ \A j \in BookCalls(c) :
              ops[j].op = "update_sync_metadata" =>
                 /\ \E i \in BookCalls(c) :
                       i < j /\ StageOfOp(ops[i].op) = 1 /\ ops[i].ok
                 /\ \E i \in BookCalls(c) :
                       i < j /\ StageOfOp(ops[i].op) = 2 /\ ops[i].ok
                 /\ HighlightCount(c) > 0 =>
                       \E i \in BookCalls(c) :
                          i < j /\ StageOfOp(ops[i].op) = 6 /\ ops[i].ok
                 /\ \A i \in BookCalls(c) :
                       (i < j /\ ~ops[i].ok) => StageOfOp(ops[i].op) \in {4, 5}

(* A run that made all five kinds of call for one book, the page write
   being an update followed by the status update. *)
AllFiveCallsMade ==
    \E c \in Books :
        /\ {StageOfOp(ops[i].op) : i \in BookCalls(c)} = 1..7
        /\ \A i \in BookCalls(c) : ops[i].ok

TitleUpdates == {i \in DOMAIN ops : ops[i].op = "update_database_title"}

(* C33: a run that does not abort invokes the database title update exactly
   once, after every per-book remote write of the run, and the session is
   left as it was at completion; a run that aborts never invokes it. *)
TitleUpdatedOncePerCompletedRun ==
    pc = "done" =>
        IF LastRun.normal
        THEN /\ Cardinality(TitleUpdates) = 1
             /\ \A i \in TitleUpdates, j \in DOMAIN ops :
                   ops[j].op \in RemoteMutations => j < i
             /\ session.completes = 1
        ELSE TitleUpdates = {}

(* A run that aborted at the full-mode deletion and made no title update. *)
AbortedRunLeftTitleAlone ==
    /\ pc = "done" /\ ~LastRun.normal
    /\ \E i \in DOMAIN ops : ops[i] = Op("delete_all_kobo_books", 0, FALSE)
    /\ TitleUpdates = {}

(* C35: a run in which no device operation and no remote operation failed
   returns a session with an empty error list and status success, in
   incremental and in full mode. *)
CleanRunReportsSuccess ==
    (pc = "done" /\ ~faulty) =>
        /\ session.errors = <<>>
        /\ status(session) = "success"

(* A full run without any failure that reached the per-book steps with the
   deletion count in its error list. *)
FullRunRecordedDeletionAsError ==
    /\ full_mode /\ ~faulty /\ pc = "step4"
    /\ session.errors = <<"[Full sync] Deleted existing Kobo books">>
    /\ status(session) = "partial"

(* The highlights written by the successful highlight writes among the
   first n calls of o. *)
RECURSIVE HighlightsWritten(_, _)
HighlightsWritten(o, n) ==
    IF n = 0 THEN 0
    ELSE HighlightsWritten(o, n - 1) +
         (IF /\ o[n].op \in {"create_highlight_blocks", "update_highlight_blocks"}
             /\ o[n].ok
          THEN HighlightCount(o[n].cid) ELSE 0)

(* C36: the session a run returns has highlights_synced equal to the number
   of highlights whose remote write succeeded in that run: 0 after a dry
   run, and nothing counted for a book whose remote sync failed. *)
HighlightsSyncedCountsWrites ==
    pc = "done" => session.highlights_synced = HighlightsWritten(ops, Len(ops))

(* A dry run that returned with highlights counted as synced. *)
DryRunCountedHighlights ==
    /\ pc = "done" /\ dry_run /\ LastRun.normal
    /\ HighlightsWritten(ops, Len(ops)) = 0
    /\ session.highlights_synced > 0

(* C38: a failed full-mode deletion of the tracked pages records its error,
   finalizes the session and ends the run: no book is extracted and, past
   the pages the failed call itself archived, no remote page is created,
   updated or deleted. *)
FullDeleteFailureReturnsAtOnce ==
    \A i \in DOMAIN ops :
        (ops[i].op = "delete_all_kobo_books" /\ ~ops[i].ok) =>
            /\ pc = "done"
            /\ session.errors = <<"Failed to delete existing Kobo books">>
            /\ EndTimeSet(session) /\ session.completes = 1
            /\ books = <<>>
            /\ books_to_process = {}
            /\ ops[1] = Op("detect_device", 0, TRUE) /\ i = 2
            /\ \A j \in (i + 1)..Len(ops) : ops[j].op = "archive_page"

(* A full run whose deletion failed after archiving one of two tracked
   pages, and which returned with the other page in place. *)
FullDeleteFailedPartWay ==
    /\ pc = "done" /\ full_mode
    /\ ops[Len(ops)].op = "archive_page"
    /\ \E i \in DOMAIN ops : ops[i] = Op("delete_all_kobo_books", 0, FALSE)
    /\ LivePages(pages) # {}

(***************************************************************************)
(* Properties of the classification (SpecClassify).                        *)
(***************************************************************************)
(* C37: after the classification step books_created + books_updated equals
   books_processed and books_processed + books_skipped equals the number of
   extracted books, for every list of extracted books, lists in which two
   books share a content id included. *)
ClassificationCountersAddUp ==
    kPc = "classified" =>
        /\ kSession.books_created + kSession.books_updated
              = kSession.books_processed
        /\ kSession.books_processed + kSession.books_skipped = Len(kBooks)

(* A list of books with distinct content ids, one new and one unchanged,
   whose counters add up. *)
DistinctBooksCounted ==
    /\ kPc = "classified"
    /\ Len(kBooks) = MaxList
    /\ \A i, j \in DOMAIN kBooks : kBooks[i].cid = kBooks[j].cid => i = j
    /\ kSession.books_created = 1
    /\ kSession.books_skipped = 1
    /\ kSession.books_created + kSession.books_updated
          = kSession.books_processed
    /\ kSession.books_processed + kSession.books_skipped = Len(kBooks)

(***************************************************************************)
(* Properties of the retry decorator (SpecRetry).                          *)
(***************************************************************************)
RECURSIVE LeadingRateLimits(_)
LeadingRateLimits(q) ==
    IF q = <<>> \/ Head(q) # "rate_limit" THEN 0
    ELSE 1 + LeadingRateLimits(Tail(q))

(* The waits before the first k retries: initial_wait, doubled each time. *)
Backoff(k) == [i \in 1..k |-> initial_wait * 2 ^ (i - 1)]

(* C3: a client method answered with rate limits is retried up to
   max_retries times with waits of 1, 2 and 4 seconds; if every attempt is
   rate limited the call fails after max_retries + 1 attempts. *)
RateLimitedCallIsRetried ==
    (rKind \in WrappedMethods /\ rResult # "none") =>
        LET n == LeadingRateLimits(rResponses)
        IN /\ rSleeps = Backoff(IF n < max_retries THEN n ELSE max_retries)
           /\ n = Len(rResponses) => Len(rResponses) = max_retries + 1
           /\ rResponses[Len(rResponses)] = "ok" => rResult = "returned"

(* C21: every client operation that calls the remote API, the setup and
   provisioning operations included, answers a rate-limit response by
   retrying under the policy of the page operations: a wait of
   initial_wait before the second attempt, doubled before each further
   one, for up to max_retries retries. *)
EveryOperationRetriesRateLimit ==
    (rKind \in UndecoratedMethods \cup WrappedMethods /\ rResult # "none") =>
        LET n == LeadingRateLimits(rResponses)
        IN Len(rSleeps) = (IF n < max_retries THEN n ELSE max_retries)

(* A setup operation answered without a rate limit returned at once. *)
SetupCallAnswered ==
    /\ rKind \in UndecoratedMethods
    /\ rResponses = <<"ok">>
    /\ rResult = "returned"

(* C22: a call answered with an error other than a rate limit is not
   attempted again: that answer is the last one, the wrapper has ended
   with the error, and the only waits performed are those of the rate
   limits answered before it (none when it is the first answer). *)
OtherErrorsPropagateAtOnce ==
    rKind \in WrappedMethods \cup {"api_call"} =>
        \A i \in 1..Len(rResponses) :
            rResponses[i] \in {"api_error", "other_error"} =>
                /\ i = Len(rResponses)
                /\ rResult \in {"APIResponseError", "Exception",
                                "NotionValidationError"}
                /\ Len(rSleeps) = i - 1
                /\ \A j \in 1..(i - 1) : rResponses[j] = "rate_limit"

(* A first answer that is an API error other than a rate limit, with
   retries allowed, ended the call. *)
ApiErrorEndedCall ==
    /\ rKind \in WrappedMethods \cup {"api_call"}
    /\ rMax = max_retries
    /\ rResponses = <<"api_error">>
    /\ rResult # "none"
    /\ rSleeps = <<>>

(***************************************************************************)
(* Properties of the sync command (SpecCli).                               *)
(***************************************************************************)
(* The invocation is between a successful acquire and its exit. *)
InSync(p) == cliPc[p] \in {"config", "token", "confirm", "run", "finally"}

(* C7: an invocation that finds the lock held exits with code 1 having
   loaded no configuration, read no device and called no remote API; no
   invocation does any of these without holding the lock. *)
HeldLockRejectsInvocation ==
    \A p \in Procs :
        /\ (cliPc[p] = "exited" /\ p \notin cliAcquired) =>
               exitCode[p] = 1 /\ cliIo[p] = {}
        /\ InSync(p) => lockHolder = p
        /\ cliIo[p] # {} => p \in cliAcquired

(* One invocation is syncing and the other has been turned away. *)
SecondInvocationRejected ==
    \E p \in Procs, q \in Procs :
        /\ cliPc[p] = "run" /\ lockHolder = p
        /\ cliPc[q] = "exited" /\ q \notin cliAcquired /\ exitCode[q] = 1

(* The exit code the command is to give for what ended the invocation. *)
ExpectedExit(cause) ==
    CASE cause \in {"ConfigurationError", "token_missing", "token_Exception"} -> 2
      [] cause \in {"lock_held", "NotionValidationError", "SyncError", "Exception"} -> 1
      [] cause = "session_errors" -> 1
      [] cause \in {"session_ok", "declined"} -> 0

(* C16: the exit code is 2 for a configuration or credential failure, 1 for
   a held lock or an error raised by the sync, and after a sync that
   returned a session it is 0 iff the session's error list is empty. *)
ExitCodeReflectsOutcome ==
    \A p \in Procs :
        cliPc[p] = "exited" => exitCode[p] = ExpectedExit(cliCause[p])

(* Invocations have exited with 2 after a configuration error and with 1
   after a sync with errors. *)
ExitedWithCodes ==
    \E p \in Procs, q \in Procs :
        /\ cliPc[p] = "exited" /\ cliCause[p] = "ConfigurationError" /\ exitCode[p] = 2
        /\ cliPc[q] = "exited" /\ cliCause[q] = "session_errors" /\ exitCode[q] = 1

(* C8: an invocation that acquired the lock does not hold it any more when
   its process has exited, whatever the exit path and code. *)
LockReleasedAtExit ==
    \A p \in Procs : cliPc[p] = "exited" => lockHolder # p

(* Invocations that took the lock have exited with codes 0, 1 and 2 (here:
   a configuration error and a sync with errors). *)
ExitedAfterHoldingLock ==
    \E p \in Procs, q \in Procs :
        /\ p \in cliAcquired /\ cliPc[p] = "exited" /\ exitCode[p] = 2
        /\ q \in cliAcquired /\ cliPc[q] = "exited" /\ exitCode[q] = 1
        /\ lockHolder = 0


(* C39: an invocation whose acquire failed exits without touching the
   lock, and the lock an invocation holds stays with it until that
   invocation's own finally block releases it, under every interleaving
   of the invocations. *)
LockHeldUntilOwnRelease ==
    [][\A p \in Procs :
          /\ (cliPc[p] = "acquire" /\ cliPc'[p] = "exited") =>
                /\ lockHolder' = lockHolder
                /\ lockHolder \notin {0, p}
                /\ p \notin cliAcquired'
          /\ (lockHolder = p /\ lockHolder' # p) =>
                /\ cliPc[p] = "finally" /\ cliPc'[p] = "exited"
                /\ lockHolder' = 0
          /\ p \notin cliAcquired' => cliPc'[p] # "finally"]_vars

(* One invocation was turned away and has exited while the other, past its
   sync, still holds the lock it is about to release. *)
RejectedWhileHolderFinishes ==
    \E p \in Procs, q \in Procs :
        /\ cliPc[p] = "finally" /\ lockHolder = p /\ cliCause[p] = "session_errors"
        /\ cliPc[q] = "exited" /\ cliCause[q] = "lock_held"

(***************************************************************************)
(* Properties of the highlight cache (SpecCache).                          *)
(***************************************************************************)
BatchHashes(batch) == {batch[i].highlight_hash : i \in 1..Len(batch)}

(* C17: atomic_update_highlights is all-or-nothing.  After a call that
   returned, a lookup of every hash of the batch answers true and the rows
   of the other hashes are as before; after a call that raised, part-way
   through the batch or at the commit, the table is the table before the
   call, so has_highlight and get_cached_highlights_for_book answer as
   they did on it. *)
AtomicUpdateAllOrNothing ==
    cOp = "update" =>
        /\ cOutcome = "ok" =>
              /\ \A h \in BatchHashes(cBatch) :
                    has_highlight(cFile, cRows, h) = "true"
              /\ {x \in cRows : x.highlight_hash \notin BatchHashes(cBatch)}
                    = {x \in cBefore : x.highlight_hash \notin BatchHashes(cBatch)}
        /\ cOutcome = "raised" =>
              /\ cRows = cBefore
              /\ cFile = "valid" =>
                    /\ \A h \in Hashes :
                          has_highlight(cFile, cRows, h)
                              = has_highlight("valid", cBefore, h)
                    /\ \A b \in Books :
                          get_cached_highlights_for_book(cFile, cRows, b)
                              = get_cached_highlights_for_book("valid", cBefore, b)

(* A batch of two new hashes whose second insert failed after the first
   had been executed. *)
BatchFailedPartWay ==
    /\ cOp = "update" /\ cOutcome = "raised" /\ cFile = "valid"
    /\ Len(cBatch) = MaxBatch /\ cFailAt = 2
    /\ cBatch[1].highlight_hash # cBatch[2].highlight_hash
    /\ \A x \in cBefore : x.highlight_hash # cBatch[1].highlight_hash
    /\ cBefore # {}

(* C18: validate_cache on a store without the highlights table, or on one
   that is not a readable database, returns valid = false and does not
   raise; after the rebuild_cache that follows, validate_cache answers
   valid = true with entry_count = 0 and has_highlight answers false for
   every hash. *)
CorruptStoreDetectedAndRebuilt ==
    /\ (cOp = "validate" /\ cFile \in {"no_table", "unreadable"}) =>
            (cOutcome = "ok" /\ ~cValid.valid)
    /\ (cOp = "rebuild" /\ ~cValid.valid) =>
            /\ cOutcome = "ok"
            /\ validate_cache(cFile, cRows) = [valid |-> TRUE, entry_count |-> 0]
            /\ \A h \in Hashes : has_highlight(cFile, cRows, h) = "false"

(* A rebuild that followed a validation answering valid = false. *)
RebuiltAfterInvalid ==
    cOp = "rebuild" /\ ~cValid.valid

HashesOf(rows) == {x.highlight_hash : x \in rows}

(* C30: whatever sequence of add_highlight, atomic_update_highlights,
   clear_book_highlights and rebuild_cache ran, the cache holds at most one
   entry per hash; has_highlight(h) answers true exactly for the hashes
   that have an entry; get_cached_highlights_for_book(b) returns exactly
   the hashes whose entry carries book b; and clear_book_highlights(b)
   removed the entries of b and no other. *)
CacheKeyedByHash ==
    /\ \A x, y \in cRows : x.highlight_hash = y.highlight_hash => x = y
    /\ \A h \in Hashes :
          has_highlight(cFile, cRows, h) = "true" <=> h \in HashesOf(cRows)
    /\ cFile \in {"missing", "valid"} =>
          \A b \in Books :
             get_cached_highlights_for_book(cFile, cRows, b)
                = {h \in Hashes : [highlight_hash |-> h, book_id |-> b] \in cRows}
    /\ (cOp = "clear" /\ cOutcome = "ok") =>
          /\ \A x \in cBefore : x \in cRows <=> x.book_id # cBook
          /\ cRows \subseteq cBefore
    /\ (cOp = "add" /\ cOutcome = "ok") =>
          /\ cBatch[1] \in cRows
          /\ \A x \in cBefore :
                x \in cRows <=> (x.highlight_hash # cBatch[1].highlight_hash
                                  \/ x = cBatch[1])
          /\ cRows \subseteq cBefore \cup {cBatch[1]}

(* A hash re-added under another book, then that book cleared while an
   entry of the other book stays. *)
ClearedOneBookOfTwo ==
    /\ cOp = "clear" /\ cOutcome = "ok"
    /\ \E x \in cBefore : x.book_id = cBook
    /\ cRows # {}
    /\ \E x \in cBefore : x.book_id # cBook


(***************************************************************************)
(* Properties of the deduplication hash (SpecHash).                        *)
(***************************************************************************)
BothHashed == idA # -1 /\ idB # -1

(* C19: the highlight hash is a function of (book id, text, chapter
   progress), and two highlights that differ in one of the three fields
   have different hashes, the hashed string being an injective encoding
   of the fields. *)
HashIsInjectiveOnFields ==
    BothHashed =>
        /\ hlA = hlB => idA = idB
        /\ hlA # hlB => idA # idB

(* Two highlights of one book with one text at different chapter
   progress, hashed to different values. *)
DifferentProgressDifferentHash ==
    /\ BothHashed
    /\ hlA.book_id = hlB.book_id /\ hlA.text = hlB.text
    /\ hlA.chapter_progress # hlB.chapter_progress
    /\ idA # idB


(***************************************************************************)
(* Properties of the row loops (SpecExtract).                              *)
(***************************************************************************)
RECURSIVE PositionsWhere(_, _)
PositionsWhere(ok, n) ==
    IF n = 0 THEN <<>>
    ELSE IF ok[n] THEN Append(PositionsWhere(ok, n - 1), n)
    ELSE PositionsWhere(ok, n - 1)

WellFormedBooks ==
    PositionsWhere([i \in DOMAIN xBookRows |-> BookRowValid(xBookRows[i])],
                   Len(xBookRows))
WellFormedHighlights ==
    PositionsWhere([i \in DOMAIN xHlRows |-> HlRowValid(xHlRows[i])],
                   Len(xHlRows))

(* C20: extract_books and extract_highlights skip a row that fails parsing
   or validation and return the remaining well-formed rows in their
   original order; a malformed row never ends the extraction with a
   device error. *)
MalformedRowsSkipped ==
    /\ xBooks.outcome # "none" =>
          (xBooks.outcome = "returned" /\ xBooks.items = WellFormedBooks)
    /\ xHighlights.outcome # "none" =>
          (xHighlights.outcome = "returned"
           /\ xHighlights.items = WellFormedHighlights)

(* Both extractions returned every row of tables without malformed rows. *)
WellFormedTablesExtracted ==
    /\ xBooks.outcome = "returned" /\ Len(xBooks.items) = MaxRows
    /\ xHighlights.outcome = "returned" /\ Len(xHighlights.items) = MaxRows


(***************************************************************************)
(* Properties of the derived book status (SpecBook).                       *)
(***************************************************************************)
(* C26: a book is New whenever its progress is 0, whatever its read
   status; Finished when its progress is above 0 and its read status is 2;
   Reading otherwise. *)
BookStatusDerivation ==
    bkCode # "none" =>
        /\ bkPercent = 0 => bkCode = "New"
        /\ (bkPercent > 0 /\ bkReadStatus = 2) => bkCode = "Finished"
        /\ (bkPercent > 0 /\ bkReadStatus # 2) => bkCode = "Reading"

(* A book at 0 percent with read status 2 whose status is New. *)
UnopenedFinishedBookIsNew ==
    bkPercent = 0 /\ bkReadStatus = 2 /\ bkCode = "New"

(* C27, as stated: a book whose read status is 2 is Finished at every
   progress percentage in 0..100. *)
ReadStatusTwoAlwaysFinished ==
    (bkCode # "none" /\ bkReadStatus = 2) => bkCode = "Finished"

(* C27, amended: a book whose read status is 2 is Finished at every
   progress percentage above 0, below 100 included; at 0 the percentage
   decides and the book is New. *)
ReadStatusTwoFinishedAboveZero ==
    (bkCode # "none" /\ bkReadStatus = 2) =>
        bkCode = (IF bkPercent >= 1 THEN "Finished" ELSE "New")

(* A book with read status 2 part-way through, whose status is Finished. *)
PartlyReadFinishedBook ==
    /\ bkReadStatus = 2 /\ bkPercent > 0 /\ bkPercent < MaxPercent
    /\ bkCode = "Finished"


(***************************************************************************)
(* Properties of the highlight order (SpecOrder).                          *)
(***************************************************************************)
(* The rows the headings of the page body stand for, in body order. *)
RECURSIVE HeadingRows(_)
HeadingRows(blocks) ==
    IF blocks = <<>> THEN <<>>
    ELSE IF Head(blocks).type = "heading_3"
         THEN <<Head(blocks).text>> \o HeadingRows(Tail(blocks))
    ELSE HeadingRows(Tail(blocks))

(* C28: the highlights of a book are extracted in ascending order of
   their creation timestamp, and the highlight blocks written to the
   book's page are in the order of the extracted list. *)
HighlightsKeepChronologicalOrder ==
    /\ oPc # "rows" =>
          /\ Len(oHighlights) = Len(oDates)
          /\ \A i, j \in DOMAIN oHighlights :
                i < j => oDates[oHighlights[i].row] <= oDates[oHighlights[j].row]
    /\ oPc = "written" =>
          HeadingRows(oBlocks) = [i \in DOMAIN oHighlights |-> oHighlights[i].row]

(* Rows stored in an order that is not chronological, written to the page
   oldest first. *)
UnorderedRowsWrittenInOrder ==
    /\ oPc = "written"
    /\ Len(oDates) = MaxHl
    /\ oDates[1] > oDates[2] /\ oDates[2] > 0
    /\ HeadingRows(oBlocks)[1] # 1

=============================================================================
